---- MODULE Spec2Model ----
(***************************************************************************)
(* A model of vg's snarl decomposition manager (src/src/snarls.cpp):       *)
(* the snarl store, the four indexes built over it (index_of, snarl_into, *)
(* parent, children, plus the roots list), flip, manage, the chain walker  *)
(* and the chain iterator.                                                 *)
(*                                                                         *)
(* Pointers into the store are store positions 1..n, with Null for         *)
(* nullptr.  Maps are functions whose DOMAIN is the key set.  net is a net *)
(* graph over the snarls of the store, or NoNetGraph when none was built.  *)
(***************************************************************************)
EXTENDS Integers, Sequences, FiniteSets, TLC

\* Bounds of the model: node ids are 1..MaxNode, a store holds at most
\* MaxSnarls records.
MaxNode == 3
MaxSnarls == 2
\* build_indexes runs at most MaxBuilds times over one store.
MaxBuilds == 3

\* nullptr, as a store position.
Null == 0
\* The net graph variable when no net graph has been built.
NoNetGraph == [built |-> FALSE]
\* The result of an operation that left by an exception (map::at, manage).
Throw == -1

VARIABLES snarls, index_of, snarl_into, parent, children, roots, net, last

vars == <<snarls, index_of, snarl_into, parent, children, roots, net, last>>

-----------------------------------------------------------------------------
(* Visits, snarl records, keys *)

\* A node visit (Visit with node_id set): the boundary of a snarl.
NodeVisit(n, b) == [node_id |-> n, backward |-> b]

\* A default-constructed Snarl message: what parent() is without has_parent().
NoSnarl == [start |-> NodeVisit(0, FALSE), end |-> NodeVisit(0, FALSE)]

Min(a, b) == IF a < b THEN a ELSE b
Max(a, b) == IF a > b THEN a ELSE b

\* key_form: ((start id, start backward), (end id, end backward)).
key_form(snarl) ==
    << <<snarl.start.node_id, snarl.start.backward>>,
       <<snarl.end.node_id, snarl.end.backward>> >>

\* A plausible slip: the end keyed as it is read, like the start.
IntoEndKeyNotNegated(snarl) == <<snarl.end.node_id, snarl.end.backward>>

\* The two snarl_into keys build_indexes writes for a snarl.
IntoStartKey(snarl) == <<snarl.start.node_id, snarl.start.backward>>
IntoEndKey(snarl) == <<snarl.end.node_id, ~snarl.end.backward>>

\* A unary snarl: in and out the same node in opposite directions.
IsUnaryShape(snarl) ==
    /\ snarl.end.node_id = snarl.start.node_id
    /\ snarl.end.backward = ~snarl.start.backward

-----------------------------------------------------------------------------
(* unordered_map operations *)

EmptyMap == [k \in {} |-> Null]

\* m[k] = v
Put(m, k, v) == [x \in (DOMAIN m) \cup {k} |-> IF x = k THEN v ELSE m[x]]

\* m.erase(k)
Erase(m, k) == [x \in (DOMAIN m) \ {k} |-> m[x]]

\* The map after evaluating m[k]: operator[] inserts a default value.
Touch(m, k, dflt) == IF k \in DOMAIN m THEN m ELSE Put(m, k, dflt)

-----------------------------------------------------------------------------
(* The input: a decomposition streamed in any order *)

\* Node ids are opaque and the code only compares them for equality, and it
\* treats the two orientations of a node alike, so a stream is taken up to
\* renaming: ids are introduced in the order 1, 2, ... and each id is first
\* used forward.  m is the number of ids used so far.
VisitsFrom(m) ==
    {NodeVisit(n, b) : n \in 1..Min(m, MaxNode), b \in BOOLEAN}
        \cup (IF m < MaxNode THEN {NodeVisit(m + 1, FALSE)} ELSE {})

RECURSIVE UsedIds(_)
UsedIds(st) ==
    IF st = <<>> THEN 0
    ELSE Max(UsedIds(SubSeq(st, 1, Len(st) - 1)),
             Max(st[Len(st)].start.node_id, st[Len(st)].end.node_id))

\* The oriented nodes through which a snarl with these boundaries is entered:
\* its start as it is read, its end read the other way.
EntrySides(b) ==
    {<<b.start.node_id, b.start.backward>>, <<b.end.node_id, ~b.end.backward>>}

EntrySidesOf(st) == UNION {EntrySides(st[i]) : i \in 1..Len(st)}

\* The type the finder gives a snarl of this shape.
TypesFor(b) == IF IsUnaryShape(b) THEN {"UNARY"} ELSE {"ULTRABUBBLE", "UNCLASSIFIED"}

\* The boundaries that may follow st: distinct start and end visits, and no
\* oriented node through which an earlier snarl is entered (entering a node
\* in one direction enters one snarl).
NextBoundaries(st) ==
    LET m == UsedIds(st)
    IN {b \in UNION {{[start |-> s, end |-> e] :
                          e \in VisitsFrom(Max(m, s.node_id)) \ {s}} :
                     s \in VisitsFrom(m)} :
            EntrySides(b) \cap EntrySidesOf(st) = {}}

RECURSIVE BareStreams(_)
BareStreams(n) ==
    IF n = 0 THEN {<<>>}
    ELSE UNION {UNION {{Append(st, [start |-> b.start, end |-> b.end,
                                    type |-> t]) : t \in TypesFor(b)} :
                       b \in NextBoundaries(st)} :
                st \in BareStreams(n - 1)}

RECURSIVE ReachesRoot(_, _, _)
ReachesRoot(p, i, fuel) ==
    IF i = 0 THEN TRUE
    ELSE IF fuel = 0 THEN FALSE
    ELSE ReachesRoot(p, p[i], fuel - 1)

\* The oriented nodes by which a snarl with these boundaries is left: its
\* end as it is read, its start read the other way.
ExitSides(b) ==
    {<<b.end.node_id, b.end.backward>>, <<b.start.node_id, ~b.start.backward>>}

\* Leaving one of the two snarls enters the other: they abut at a node.
Abut(a, b) ==
    \/ ExitSides(a) \cap EntrySides(b) # {}
    \/ ExitSides(b) \cap EntrySides(a) # {}

\* Parent assignments over the records of st: 0 is "top level"; no snarl is
\* its own ancestor, and snarls that abut are siblings.
ParentMaps(st) ==
    {p \in [1..Len(st) -> 0..Len(st)] :
        /\ \A i \in 1..Len(st) : ReachesRoot(p, i, Len(st))
        /\ \A i, j \in 1..Len(st) : (i # j /\ Abut(st[i], st[j])) => p[i] = p[j]}

WithParents(st, p) ==
    [i \in 1..Len(st) |->
        [start |-> st[i].start, end |-> st[i].end, type |-> st[i].type,
         has_parent |-> p[i] # 0,
         parent |-> IF p[i] # 0
                    THEN [start |-> st[p[i]].start, end |-> st[p[i]].end]
                    ELSE NoSnarl]]

Streams ==
    UNION {UNION {{WithParents(st, p) : p \in ParentMaps(st)} :
                  st \in BareStreams(n)} :
           n \in 0..MaxSnarls}

-----------------------------------------------------------------------------
(* SnarlManager: the manager is the record of its fields *)

Manager(st, io, si, pa, ch, rt) ==
    [snarls |-> st, index_of |-> io, snarl_into |-> si, parent |-> pa,
     children |-> ch, roots |-> rt]

\* A manager whose store is filled and whose indexes are still empty.
Loaded(st) == Manager(st, EmptyMap, EmptyMap, EmptyMap, EmptyMap, <<>>)

\* The first loop of build_indexes, from record i on.  index_of holds the
\* code's 0-based position.
RECURSIVE BuildPass1(_, _)
BuildPass1(m, i) ==
    IF i > Len(m.snarls) THEN m
    ELSE LET snarl == m.snarls[i]
             pk == key_form(snarl.parent)
         IN BuildPass1(
              [m EXCEPT
                 !.index_of = Put(@, key_form(snarl), i - 1),
                 !.children = IF snarl.has_parent
                              THEN IF pk \notin DOMAIN @
                                   THEN Put(@, pk, <<i>>)
                                   ELSE Put(@, pk, Append(@[pk], i))
                              ELSE @,
                 !.roots = IF snarl.has_parent THEN @ ELSE Append(@, i),
                 !.parent = IF snarl.has_parent THEN @
                            ELSE Put(@, key_form(snarl), Null),
                 !.snarl_into = Put(Put(@, IntoStartKey(snarl), i),
                                    IntoEndKey(snarl), i)],
              i + 1)

\* parent[key_form(child)] = &snarl for each child of the list, in order.
RECURSIVE SetParents(_, _, _, _)
SetParents(pa, st, kids, i) ==
    IF kids = <<>> THEN pa
    ELSE SetParents(Put(pa, key_form(st[Head(kids)]), i), st, Tail(kids), i)

\* The second loop of build_indexes, from record i on.
RECURSIVE BuildPass2(_, _)
BuildPass2(m, i) ==
    IF i > Len(m.snarls) THEN m
    ELSE LET k == key_form(m.snarls[i])
         IN IF k \in DOMAIN m.children
            THEN BuildPass2([m EXCEPT !.parent =
                                SetParents(@, m.snarls, m.children[k], i)],
                            i + 1)
            ELSE BuildPass2([m EXCEPT !.children = Put(@, k, <<>>)], i + 1)

\* A plausible slip: one loop only, which can name the parent of a child only
\* when the parent's record came first.
RECURSIVE BuildOnePass(_, _)
BuildOnePass(m, i) ==
    IF i > Len(m.snarls) THEN m
    ELSE LET snarl == m.snarls[i]
             k == key_form(snarl)
             pk == key_form(snarl.parent)
         IN BuildOnePass(
              [m EXCEPT
                 !.index_of = Put(@, k, i - 1),
                 !.children = LET c == IF snarl.has_parent
                                       THEN IF pk \notin DOMAIN @
                                            THEN Put(@, pk, <<i>>)
                                            ELSE Put(@, pk, Append(@[pk], i))
                                       ELSE @
                              IN Touch(c, k, <<>>),
                 !.roots = IF snarl.has_parent THEN @ ELSE Append(@, i),
                 !.parent = IF snarl.has_parent
                            THEN IF pk \in DOMAIN m.index_of
                                 THEN Put(@, k, m.index_of[pk] + 1)
                                 ELSE Put(@, k, Null)
                            ELSE Put(@, k, Null),
                 !.snarl_into = Put(Put(@, IntoStartKey(snarl), i),
                                    IntoEndKey(snarl), i)],
              i + 1)

build_indexes_one_pass(m) == BuildOnePass(m, 1)

build_indexes(m) == BuildPass2(BuildPass1(m, 1), 1)

\* SnarlManager(istream&): drain the stream into the store, build the indexes.
Construct(st) == build_indexes(Loaded(st))

Mgr == Manager(snarls, index_of, snarl_into, parent, children, roots)

Install(m) ==
    /\ snarls' = m.snarls
    /\ index_of' = m.index_of
    /\ snarl_into' = m.snarl_into
    /\ parent' = m.parent
    /\ children' = m.children
    /\ roots' = m.roots

-----------------------------------------------------------------------------
(* Tree and lookup queries *)

\* The record a pointer names, as a key; the default key for nullptr.
KeyOf(m, ptr) == IF ptr = Null THEN key_form(NoSnarl) ELSE key_form(m.snarls[ptr])

\* children_of: roots for nullptr, else children.at(key), which throws on a
\* missing key.
children_of(m, snarl) ==
    IF snarl = Null THEN [ok |-> TRUE, val |-> m.roots]
    ELSE IF key_form(m.snarls[snarl]) \in DOMAIN m.children
         THEN [ok |-> TRUE, val |-> m.children[key_form(m.snarls[snarl])]]
         ELSE [ok |-> FALSE, val |-> <<>>]

\* parent_of: parent.at(key).
parent_of(m, snarl) ==
    IF key_form(m.snarls[snarl]) \in DOMAIN m.parent
    THEN m.parent[key_form(m.snarls[snarl])]
    ELSE Throw

into_which_snarl(m, id, rev) ==
    IF <<id, rev>> \in DOMAIN m.snarl_into THEN m.snarl_into[<<id, rev>>] ELSE Null

\* A plausible slip: the position read with index_of[key], which gives 0 for
\* a key that is not there.
manage_by_subscript(m, not_owned) ==
    IF key_form(not_owned) \notin DOMAIN m.index_of
    THEN (IF Len(m.snarls) > 0 THEN 1 ELSE Throw)
    ELSE m.index_of[key_form(not_owned)] + 1

\* manage: the stored record with the key of not_owned; throws when the key
\* is not in index_of (or, through vector::at, when the position is not in
\* the store).
manage(m, not_owned) ==
    IF key_form(not_owned) \notin DOMAIN m.index_of THEN Throw
    ELSE IF m.index_of[key_form(not_owned)] + 1 > Len(m.snarls) THEN Throw
    ELSE m.index_of[key_form(not_owned)] + 1

-----------------------------------------------------------------------------
(* flip *)

\* A plausible slip: start and end swapped, orientations not negated.
SwappedNotNegated(snarl) ==
    [snarl EXCEPT !.start = NodeVisit(snarl.end.node_id, snarl.end.backward),
                  !.end = NodeVisit(snarl.start.node_id, snarl.start.backward)]

\* The record after "swap and reverse the start and end Visits".
SwapAndReverse(snarl) ==
    [snarl EXCEPT !.start = NodeVisit(snarl.end.node_id, ~snarl.end.backward),
                  !.end = NodeVisit(snarl.start.node_id, ~snarl.start.backward)]

\* map[new] = map[old]; map.erase(old).  Both subscripts insert a default
\* value for a missing key; with new = old the entry assigned to itself is
\* the one erased.
Rekey(map, old, new, dflt) ==
    Erase(Put(Touch(map, old, dflt), new, Touch(map, old, dflt)[old]), old)

flip(m, snarl) ==
    LET old_key == key_form(m.snarls[snarl])
        new_key == key_form(SwapAndReverse(m.snarls[snarl]))
    IN [m EXCEPT !.snarls = [@ EXCEPT ![snarl] = SwapAndReverse(@)],
                 !.parent = Rekey(@, old_key, new_key, Null),
                 !.children = Rekey(@, old_key, new_key, <<>>),
                 !.index_of = Rekey(@, old_key, new_key, 0)]

-----------------------------------------------------------------------------
(* Chains *)

\* A default-constructed Visit.
EmptyVisit ==
    [node_id |-> 0, has_snarl |-> FALSE, snarl |-> NoSnarl, backward |-> FALSE]

\* A forward Visit after transfer_boundary_info(snarl, *visit.mutable_snarl()).
SnarlVisit(snarl) ==
    [node_id |-> 0, has_snarl |-> TRUE,
     snarl |-> [start |-> snarl.start, end |-> snarl.end], backward |-> FALSE]

\* reverse(visit): the same visit with its orientation bit negated.
reverse(visit) == [visit EXCEPT !.backward = ~@]

snarl_sharing_start(m, here) ==
    LET next == into_which_snarl(m, m.snarls[here].start.node_id,
                                 ~m.snarls[here].start.backward)
    IN IF next = here THEN Null ELSE next

snarl_sharing_end(m, here) ==
    LET next == into_which_snarl(m, m.snarls[here].end.node_id,
                                 m.snarls[here].end.backward)
    IN IF next = here THEN Null ELSE next

\* What a build makes of next_in_chain flowing off its end with to_return
\* built (undefined behaviour): "value", the return slot holds to_return (the
\* named return value is built in place); "empty", the optimiser takes the
\* path for unreachable and keeps only "return to_return" of the null branch;
\* "trap", the build traps at the end of the function.
UBOutcomes == {"value", "empty", "trap"}

FallOffEnd(ub, to_return) ==
    IF ub = "value" THEN [status |-> "ok", visit |-> to_return]
    ELSE IF ub = "empty" THEN [status |-> "ok", visit |-> EmptyVisit]
    ELSE [status |-> "trap", visit |-> EmptyVisit]

\* next_in_chain(here) in a build of kind ub: status "ok" with the visit
\* returned, "throw" when manage throws, "trap".
next_in_chain(m, here, ub) ==
    LET here_snarl == manage(m, here.snarl)
        next == IF here.backward THEN snarl_sharing_start(m, here_snarl)
                ELSE snarl_sharing_end(m, here_snarl)
    IN IF here_snarl = Throw THEN [status |-> "throw", visit |-> EmptyVisit]
       ELSE IF next = Null THEN [status |-> "ok", visit |-> EmptyVisit]
       ELSE FallOffEnd(ub,
              [SnarlVisit(m.snarls[next]) EXCEPT !.backward =
                 IF here.backward
                 THEN m.snarls[next].end.node_id = m.snarls[here_snarl].start.node_id
                 ELSE m.snarls[next].start.node_id # m.snarls[here_snarl].end.node_id])

prev_in_chain(m, here, ub) ==
    [next_in_chain(m, reverse(here), ub) EXCEPT !.visit = reverse(@)]

\* A walk that has taken more steps than there are snarl visits repeats one,
\* and so never ends.
WalkFuel(m) == 2 * Len(m.snarls) + 1

Range(seq) == {seq[j] : j \in 1..Len(seq)}

\* The walk_left loop of chains_of; r is the last prev_in_chain result.
RECURSIVE WalkLeft(_, _, _, _, _)
WalkLeft(m, ub, r, chain, fuel) ==
    IF r.status # "ok" THEN [status |-> r.status, chain |-> chain]
    ELSE IF ~r.visit.has_snarl THEN [status |-> "ok", chain |-> chain]
    ELSE IF fuel = 0 THEN [status |-> "diverge", chain |-> chain]
    ELSE IF manage(m, r.visit.snarl) = Throw
         THEN [status |-> "throw", chain |-> chain]
    ELSE WalkLeft(m, ub, prev_in_chain(m, r.visit, ub),
                  <<manage(m, r.visit.snarl)>> \o chain, fuel - 1)

\* The walk_right loop of chains_of; r is the last next_in_chain result.
RECURSIVE WalkRight(_, _, _, _, _)
WalkRight(m, ub, r, chain, fuel) ==
    IF r.status # "ok" THEN [status |-> r.status, chain |-> chain]
    ELSE IF ~r.visit.has_snarl THEN [status |-> "ok", chain |-> chain]
    ELSE IF fuel = 0 THEN [status |-> "diverge", chain |-> chain]
    ELSE IF manage(m, r.visit.snarl) = Throw
         THEN [status |-> "throw", chain |-> chain]
    ELSE WalkRight(m, ub, next_in_chain(m, r.visit, ub),
                   Append(chain, manage(m, r.visit.snarl)), fuel - 1)

\* The chain chains_of builds around one unseen child.
ChainAround(m, ub, child) ==
    LET here == SnarlVisit(m.snarls[child])
        left == WalkLeft(m, ub, prev_in_chain(m, here, ub), <<child>>, WalkFuel(m))
    IN IF left.status # "ok" THEN left
       ELSE WalkRight(m, ub, next_in_chain(m, here, ub), left.chain, WalkFuel(m))

\* The loop of chains_of over children_of(snarl), from the k-th child on.
RECURSIVE ChainsLoop(_, _, _, _, _, _)
ChainsLoop(m, ub, kids, k, seen, to_return) ==
    IF k > Len(kids) THEN [status |-> "ok", chains |-> to_return]
    ELSE IF kids[k] \in seen THEN ChainsLoop(m, ub, kids, k + 1, seen, to_return)
    ELSE LET c == ChainAround(m, ub, kids[k])
         IN IF c.status # "ok" THEN [status |-> c.status, chains |-> to_return]
            ELSE ChainsLoop(m, ub, kids, k + 1, seen \cup Range(c.chain),
                            Append(to_return, c.chain))

\* chains_of(snarl) in a build of kind ub: status "ok" with the chains
\* returned, "throw", "trap", or "diverge" when a walk never ends.
chains_of(m, snarl, ub) ==
    IF ~children_of(m, snarl).ok THEN [status |-> "throw", chains |-> <<>>]
    ELSE ChainsLoop(m, ub, children_of(m, snarl).val, 1, {}, <<>>)

\* start_backward(chain): the first snarl shares its start node with the
\* second.
start_backward(m, chain) ==
    /\ Len(chain) > 1
    /\ \/ m.snarls[chain[1]].start.node_id = m.snarls[chain[2]].start.node_id
       \/ m.snarls[chain[1]].start.node_id = m.snarls[chain[2]].end.node_id

\* ChainIterator: pos is a position in the chain, the chain's end() being
\* one past its last position.
chain_begin(m, chain) ==
    [go_left |-> FALSE, backward |-> start_backward(m, chain), pos |-> 1,
     chain_start |-> 1, chain_end |-> Len(chain) + 1, is_rend |-> FALSE]

chain_end(m, chain) ==
    [go_left |-> FALSE, backward |-> FALSE, pos |-> Len(chain) + 1,
     chain_start |-> 1, chain_end |-> Len(chain) + 1, is_rend |-> FALSE]

\* A plausible slip: the node the next snarl should touch taken to be this
\* snarl's end whichever way this snarl is read.
ChainIterator_increment_from_end(m, chain, it) ==
    LET here == m.snarls[chain[it.pos]]
        last_leading_node == here.end.node_id
    IN IF it.go_left
       THEN IF it.pos = it.chain_start
            THEN [it EXCEPT !.is_rend = TRUE, !.backward = FALSE]
            ELSE [it EXCEPT !.pos = @ - 1,
                            !.backward = m.snarls[chain[it.pos - 1]].end.node_id
                                            # last_leading_node]
       ELSE IF it.pos + 1 = it.chain_end
            THEN [it EXCEPT !.pos = @ + 1, !.backward = FALSE]
            ELSE [it EXCEPT !.pos = @ + 1,
                            !.backward = m.snarls[chain[it.pos + 1]].start.node_id
                                            # last_leading_node]

\* ChainIterator::operator++ on an iterator that is at an element.
ChainIterator_increment(m, chain, it) ==
    LET here == m.snarls[chain[it.pos]]
        last_leading_node == IF it.go_left # it.backward THEN here.start.node_id
                             ELSE here.end.node_id
    IN IF it.go_left
       THEN IF it.pos = it.chain_start
            THEN [it EXCEPT !.is_rend = TRUE, !.backward = FALSE]
            ELSE [it EXCEPT !.pos = @ - 1,
                            !.backward = m.snarls[chain[it.pos - 1]].end.node_id
                                            # last_leading_node]
       ELSE IF it.pos + 1 = it.chain_end
            THEN [it EXCEPT !.pos = @ + 1, !.backward = FALSE]
            ELSE [it EXCEPT !.pos = @ + 1,
                            !.backward = m.snarls[chain[it.pos + 1]].start.node_id
                                            # last_leading_node]

\* for (it = first; it != chain_end(chain); ++it): the (snarl, backward)
\* pairs the loop sees.
RECURSIVE IterateToEnd(_, _, _)
IterateToEnd(m, chain, it) ==
    IF it = chain_end(m, chain) THEN <<>>
    ELSE <<[snarl |-> chain[it.pos], backward |-> it.backward]>>
            \o IterateToEnd(m, chain, ChainIterator_increment(m, chain, it))

-----------------------------------------------------------------------------
(* The state machine *)

\* What the queries say of one stored snarl.
View(m, snarl) ==
    [start |-> m.snarls[snarl].start, end |-> m.snarls[snarl].end,
     parent |-> parent_of(m, snarl), children |-> children_of(m, snarl),
     has_index |-> key_form(m.snarls[snarl]) \in DOMAIN m.index_of,
     manage |-> manage(m, m.snarls[snarl])]

\* The state after the constructor ran on a stream.
Init ==
    \E st \in Streams :
        /\ snarls = st
        /\ index_of = Construct(st).index_of
        /\ snarl_into = Construct(st).snarl_into
        /\ parent = Construct(st).parent
        /\ children = Construct(st).children
        /\ roots = Construct(st).roots
        /\ net = NoNetGraph
        /\ last = [op |-> "construct"]

\* flip(&snarls[snarl]).  last keeps what the queries said of the snarl
\* before this call and, when the call before was a flip of the same snarl,
\* before that one.
Flip(snarl) ==
    /\ Install(flip(Mgr, snarl))
    /\ UNCHANGED net
    /\ last' = [op |-> "flip", arg |-> snarl,
                before |-> View(Mgr, snarl),
                twice |-> (last.op = "flip" /\ last.arg = snarl),
                before2 |-> IF last.op = "flip" /\ last.arg = snarl
                            THEN last.before ELSE View(Mgr, snarl)]

\* chains_of(snarl), snarl a stored snarl or nullptr, in a build of kind ub.
ChainsOf(snarl, ub) ==
    /\ last' = [op |-> "chains_of", arg |-> snarl, ub |-> ub,
                res |-> chains_of(Mgr, snarl, ub)]
    /\ UNCHANGED <<snarls, index_of, snarl_into, parent, children, roots, net>>

\* The number of times build_indexes has run over the store.
Builds == IF last.op = "construct" THEN 1 ELSE last.runs

\* build_indexes() once more over the store as it stands.  last keeps the
\* manager as it was before this run.
Rebuild ==
    /\ Builds < MaxBuilds
    /\ Install(build_indexes(Mgr))
    /\ UNCHANGED net
    /\ last' = [op |-> "build_indexes", before |-> Mgr, runs |-> Builds + 1]

Next ==
    \/ \E snarl \in 1..Len(snarls) : Flip(snarl)
    \/ \E snarl \in 0..Len(snarls), ub \in UBOutcomes : ChainsOf(snarl, ub)

Spec == Init /\ [][Next]_vars

NextRebuild == Rebuild

SpecRebuild == Init /\ [][NextRebuild]_vars

-----------------------------------------------------------------------------
(* Properties *)

\* C1: when flip has been called twice in a row on the same stored snarl,
\* the snarl's start and end, parent_of, children_of, its index_of entry and
\* manage of its value are what they were before the two calls.
C1_FlipTwiceRestores ==
    (last.op = "flip" /\ last.twice) => View(Mgr, last.arg) = last.before2

\* C2: after build_indexes and any flips, every stored snarl has an entry
\* under its current key in parent, children and index_of, and its index_of
\* entry is its position in the store.
C2_EntriesUnderCurrentKey ==
    \A i \in 1..Len(snarls) :
        /\ key_form(snarls[i]) \in DOMAIN parent
        /\ key_form(snarls[i]) \in DOMAIN children
        /\ key_form(snarls[i]) \in DOMAIN index_of
        /\ index_of[key_form(snarls[i])] = i - 1

\* C3: after build_indexes and any flips, manage of a copy of a stored
\* snarl returns that stored record.
C3_ManageFindsStored ==
    \A i \in 1..Len(snarls) : manage(Mgr, snarls[i]) = i

\* The snarl_into keys that point to the i-th stored snarl.
EntriesInto(i) == {k \in DOMAIN snarl_into : snarl_into[k] = i}

\* The two keys the claim names, from the snarl's current boundaries.
NamedKeys(i) ==
    {<<snarls[i].start.node_id, snarls[i].start.backward>>,
     <<snarls[i].end.node_id, ~snarls[i].end.backward>>}

IntoWhichAgrees(i) ==
    \A id \in 1..MaxNode, rev \in BOOLEAN :
        (into_which_snarl(Mgr, id, rev) = i) <=> (<<id, rev>> \in NamedKeys(i))

\* C4 as stated: exactly two snarl_into entries point to each stored snarl,
\* those keyed (start.id, start.backward) and (end.id, NOT end.backward), and
\* into_which_snarl returns the snarl for exactly those keys.
C4_ExactlyTwoEntries ==
    \A i \in 1..Len(snarls) :
        /\ Cardinality(EntriesInto(i)) = 2
        /\ EntriesInto(i) = NamedKeys(i)
        /\ IntoWhichAgrees(i)

\* C4 amended: the snarl_into entries that point to a stored snarl are
\* exactly those keyed (start.id, start.backward) and (end.id, NOT
\* end.backward), and into_which_snarl returns the snarl for exactly those
\* keys; they are two entries, except for a unary snarl, whose two keys are
\* one and the same.
C4_EntriesAreNamedKeys ==
    \A i \in 1..Len(snarls) :
        /\ Cardinality(EntriesInto(i)) = IF IsUnaryShape(snarls[i]) THEN 1 ELSE 2
        /\ EntriesInto(i) = NamedKeys(i)
        /\ IntoWhichAgrees(i)

\* C4 witness: a store holding a unary snarl and one that is not.
C4_Witness ==
    /\ \E i \in 1..Len(snarls) : IsUnaryShape(snarls[i])
    /\ \E i \in 1..Len(snarls) : ~IsUnaryShape(snarls[i])

\* The entries of a map under keys other than those in ks are the same in
\* both maps.
SameExcept(m1, m2, ks) ==
    /\ (DOMAIN m1) \ ks = (DOMAIN m2) \ ks
    /\ \A k \in (DOMAIN m1) \ ks : m1[k] = m2[k]

\* What a step that is flip of the i-th snarl leaves alone.
FlipFrame(i) ==
    /\ snarl_into' = snarl_into
    /\ roots' = roots
    /\ Len(snarls') = Len(snarls)
    /\ \A j \in 1..Len(snarls) : j # i => snarls'[j] = snarls[j]
    /\ snarls'[i].type = snarls[i].type
    /\ snarls'[i].has_parent = snarls[i].has_parent
    /\ snarls'[i].parent = snarls[i].parent
    /\ SameExcept(parent, parent', {key_form(snarls[i]), key_form(snarls'[i])})
    /\ SameExcept(children, children', {key_form(snarls[i]), key_form(snarls'[i])})
    /\ SameExcept(index_of, index_of', {key_form(snarls[i]), key_form(snarls'[i])})
    /\ \A k \in {<<snarls'[i].start.node_id, snarls'[i].start.backward>>,
                 <<snarls'[i].end.node_id, ~snarls'[i].end.backward>>} :
           k \in DOMAIN snarl_into' /\ snarl_into'[k] = i

\* C5: a flip of a stored snarl changes only that snarl's start and end and
\* the parent, children and index_of entries under its old and new key;
\* snarl_into, roots, the store order and every other record and entry are
\* unchanged, and the snarl_into entries under the keys computed from the
\* snarl's new boundaries point to it.
C5_FlipFrame ==
    [][\A i \in 1..Len(snarls) : Flip(i) => FlipFrame(i)]_vars

\* C5 witness: a snarl that is not unary, with a parent or a child, has been
\* flipped, in a store of two snarls.
C5_Witness ==
    /\ last.op = "flip"
    /\ Len(snarls) = 2
    /\ ~IsUnaryShape(snarls[last.arg])
    /\ \/ snarls[last.arg].has_parent
       \/ (children_of(Mgr, last.arg).ok /\ children_of(Mgr, last.arg).val # <<>>)

\* C6: parent_of is defined for every stored snarl, and the snarl is among
\* children_of(parent_of(snarl)), which for a null parent is the roots.
C6_ChildOfItsParent ==
    \A i \in 1..Len(snarls) :
        /\ parent_of(Mgr, i) # Throw
        /\ children_of(Mgr, parent_of(Mgr, i)).ok
        /\ i \in Range(children_of(Mgr, parent_of(Mgr, i)).val)

\* The indexes of a manager with every pointer replaced by the key of the
\* record it names.
AbsParent(m) == {<<k, KeyOf(m, m.parent[k])>> : k \in DOMAIN m.parent}
AbsChildren(m) ==
    {<<k, {KeyOf(m, c) : c \in Range(m.children[k])}>> : k \in DOMAIN m.children}
AbsRoots(m) == {KeyOf(m, r) : r \in Range(m.roots)}
AbsInto(m) == {<<k, KeyOf(m, m.snarl_into[k])>> : k \in DOMAIN m.snarl_into}

SameRelations(m1, m2) ==
    /\ AbsParent(m1) = AbsParent(m2)
    /\ AbsChildren(m1) = AbsChildren(m2)
    /\ AbsRoots(m1) = AbsRoots(m2)
    /\ AbsInto(m1) = AbsInto(m2)

Reordered(st, perm) == [j \in 1..Len(st) |-> st[perm[j]]]

\* C7: the manager built from a stream and the manager built from any
\* reordering of it have the same parent relation, the same set of children
\* of every snarl, the same set of roots and the same snarl_into map, and
\* parent_of a child is the stored record of its declared parent.
C7_OrderIndependent ==
    last.op = "construct" =>
        /\ \A perm \in Permutations(1..Len(snarls)) :
               SameRelations(Construct(Reordered(snarls, perm)), Mgr)
        /\ \A i \in 1..Len(snarls) :
               snarls[i].has_parent =>
                   /\ parent_of(Mgr, i) \in 1..Len(snarls)
                   /\ key_form(snarls[parent_of(Mgr, i)]) = key_form(snarls[i].parent)

\* C7 witness: a freshly built store in which a child record comes before
\* its parent's record.
C7_Witness ==
    /\ last.op = "construct"
    /\ \E i, j \in 1..Len(snarls) :
           /\ i < j
           /\ snarls[i].has_parent
           /\ key_form(snarls[i].parent) = key_form(snarls[j])

\* C8: a second build_indexes on the unchanged store leaves index_of,
\* snarl_into, parent, the children lists and the roots list as they were.
C8_RebuildIdentical ==
    last.op = "build_indexes" => Mgr = last.before

\* The places <<chain, position>> at which snarl s stands in the chains.
Places(chains, s) ==
    UNION {{<<c, j>> : j \in {j \in 1..Len(chains[c]) : chains[c][j] = s}} :
           c \in 1..Len(chains)}

\* C9: the chains chains_of returns partition the children: every child is
\* in exactly one chain, once, and a chain holds only children.
C9_ChainsPartitionChildren ==
    (last.op = "chains_of" /\ last.res.status = "ok") =>
        /\ \A s \in Range(children_of(Mgr, last.arg).val) :
               Cardinality(Places(last.res.chains, s)) = 1
        /\ \A c \in 1..Len(last.res.chains) :
               Range(last.res.chains[c]) \subseteq Range(children_of(Mgr, last.arg).val)

SharedNodes(a, b) ==
    {a.start.node_id, a.end.node_id} \cap {b.start.node_id, b.end.node_id}

Trailing(snarl, backward) ==
    IF backward THEN snarl.start.node_id ELSE snarl.end.node_id

Leading(snarl, backward) ==
    IF backward THEN snarl.end.node_id ELSE snarl.start.node_id

ChainWellOriented(chain) ==
    LET seq == IterateToEnd(Mgr, chain, chain_begin(Mgr, chain))
    IN /\ Len(seq) = Len(chain)
       /\ \A j \in 1..(Len(chain) - 1) :
              /\ seq[j].snarl = chain[j]
              /\ seq[j + 1].snarl = chain[j + 1]
              /\ Cardinality(SharedNodes(snarls[chain[j]], snarls[chain[j + 1]])) = 1
              /\ Trailing(snarls[chain[j]], seq[j].backward)
                     \in SharedNodes(snarls[chain[j]], snarls[chain[j + 1]])
              /\ Leading(snarls[chain[j + 1]], seq[j + 1].backward)
                     = Trailing(snarls[chain[j]], seq[j].backward)

\* C10: in every chain chains_of returns, consecutive snarls share exactly
\* one boundary node, and iterating from chain_begin gives them backward
\* flags under which that node is the trailing boundary of the first and the
\* leading boundary of the second.
C10_ChainOrientation ==
    (last.op = "chains_of" /\ last.res.status = "ok") =>
        \A c \in 1..Len(last.res.chains) : ChainWellOriented(last.res.chains[c])

\* C10 witness: chains_of, in a build that returns the visit it built, has
\* returned a chain of two snarls, neither unary, that starts backward.
C10_Witness ==
    /\ last.op = "chains_of"
    /\ last.ub = "value"
    /\ last.res.status = "ok"
    /\ \E c \in 1..Len(last.res.chains) :
           /\ Len(last.res.chains[c]) = 2
           /\ start_backward(Mgr, last.res.chains[c])
           /\ \A j \in 1..2 : ~IsUnaryShape(snarls[last.res.chains[c][j]])

-----------------------------------------------------------------------------
(* Chain neighbours, flips of children, manage *)

\* A parent over a chain of two children, its records in any order.
ChainUnderParent ==
    LET P == [start |-> NodeVisit(1, FALSE), end |-> NodeVisit(5, FALSE)]
        rec(b, has) == [start |-> b.start, end |-> b.end, type |-> "ULTRABUBBLE",
                        has_parent |-> has, parent |-> IF has THEN P ELSE NoSnarl]
        recs == << rec(P, FALSE),
                   rec([start |-> NodeVisit(2, FALSE), end |-> NodeVisit(3, FALSE)], TRUE),
                   rec([start |-> NodeVisit(3, FALSE), end |-> NodeVisit(4, FALSE)], TRUE) >>
    IN {Reordered(recs, perm) : perm \in Permutations(1..3)}

\* The state after the constructor ran on a stream of Streams or on a parent
\* over a chain.
InitQueries ==
    \E st \in Streams \cup ChainUnderParent :
        /\ snarls = st
        /\ index_of = Construct(st).index_of
        /\ snarl_into = Construct(st).snarl_into
        /\ parent = Construct(st).parent
        /\ children = Construct(st).children
        /\ roots = Construct(st).roots
        /\ net = NoNetGraph
        /\ last = [op |-> "construct"]

\* The snarl visit of a stored snarl, read forward or backward.
VisitOf(snarl, backward) == [SnarlVisit(snarls[snarl]) EXCEPT !.backward = backward]

\* next_in_chain(here), here a visit of a stored snarl, in a build of kind ub.
NextInChain(snarl, backward, ub) ==
    /\ last' = [op |-> "next_in_chain", arg |-> snarl,
                here |-> VisitOf(snarl, backward), ub |-> ub,
                res |-> next_in_chain(Mgr, VisitOf(snarl, backward), ub)]
    /\ UNCHANGED <<snarls, index_of, snarl_into, parent, children, roots, net>>

\* prev_in_chain of the visit next_in_chain has just returned, in the same
\* build.
PrevInChain ==
    /\ last.op = "next_in_chain"
    /\ last.res.status = "ok"
    /\ last' = [op |-> "prev_in_chain", arg |-> last.arg, from |-> last.here,
                here |-> last.res.visit, ub |-> last.ub,
                res |-> prev_in_chain(Mgr, last.res.visit, last.ub)]
    /\ UNCHANGED <<snarls, index_of, snarl_into, parent, children, roots, net>>

\* flip(&snarls[snarl]) of a snarl whose parent is a snarl.  last keeps the
\* manager as it was before the call.
FlipChild(snarl) ==
    /\ parent_of(Mgr, snarl) \in 1..Len(snarls)
    /\ Install(flip(Mgr, snarl))
    /\ UNCHANGED net
    /\ last' = [op |-> "flip_child", arg |-> snarl, P |-> parent_of(Mgr, snarl),
                before |-> Mgr]

\* The snarl values handed to manage: the stored records' values, those
\* values the other way round, and a default Snarl.
NotOwnedValues ==
    {[start |-> snarls[i].start, end |-> snarls[i].end] : i \in 1..Len(snarls)}
        \cup {[start |-> SwapAndReverse(snarls[i]).start,
               end |-> SwapAndReverse(snarls[i]).end] : i \in 1..Len(snarls)}
        \cup {NoSnarl}

\* manage(not_owned).
Manage(not_owned) ==
    /\ last' = [op |-> "manage", arg |-> not_owned, res |-> manage(Mgr, not_owned)]
    /\ UNCHANGED <<snarls, index_of, snarl_into, parent, children, roots, net>>

NextQueries ==
    \/ \E snarl \in 1..Len(snarls) : Flip(snarl)
    \/ \E snarl \in 1..Len(snarls) : FlipChild(snarl)
    \/ \E snarl \in 1..Len(snarls), backward \in BOOLEAN, ub \in UBOutcomes :
           NextInChain(snarl, backward, ub)
    \/ PrevInChain

SpecQueries == InitQueries /\ [][NextQueries]_vars

NextManage ==
    \/ \E snarl \in 1..Len(snarls) : Flip(snarl)
    \/ \E not_owned \in NotOwnedValues : Manage(not_owned)

SpecManage == Init /\ [][NextManage]_vars

\* The neighbour of the snarl on the side a visit leaves it by.
OutNeighbour(snarl, backward) ==
    IF backward THEN snarl_sharing_start(Mgr, snarl) ELSE snarl_sharing_end(Mgr, snarl)

\* The node a visit leaves its snarl by.
SharedNode(snarl, backward) ==
    IF backward THEN snarls[snarl].start.node_id ELSE snarls[snarl].end.node_id

\* C11: next_in_chain of a snarl visit returns an empty visit when the snarl
\* has no neighbour on its out side; otherwise it returns a snarl visit with
\* the neighbour's start and end, backward exactly when (it left by its start
\* and the neighbour's end node is the shared node) or (it left by its end and
\* the neighbour's start node is not the shared node).
C11_NextInChainResult ==
    last.op = "next_in_chain" =>
        /\ last.res.status = "ok"
        /\ IF OutNeighbour(last.arg, last.here.backward) = Null
           THEN last.res.visit = EmptyVisit
           ELSE LET n == snarls[OutNeighbour(last.arg, last.here.backward)]
                    shared == SharedNode(last.arg, last.here.backward)
                IN /\ last.res.visit.has_snarl
                   /\ last.res.visit.node_id = 0
                   /\ last.res.visit.snarl = [start |-> n.start, end |-> n.end]
                   /\ last.res.visit.backward =
                          IF last.here.backward THEN n.end.node_id = shared
                          ELSE n.start.node_id # shared

\* C12: when the snarl of a visit v has a neighbour on its out side,
\* prev_in_chain of next_in_chain(v) is v.
C12_PrevOfNext ==
    (last.op = "prev_in_chain" /\ OutNeighbour(last.arg, last.from.backward) # Null) =>
        /\ last.res.status = "ok"
        /\ last.res.visit = last.from

\* The chains of two chains_of results are the same snarls in the same
\* sequence.
SameChains(r1, r2) == r1.status = "ok" /\ r2.status = "ok" /\ r1.chains = r2.chains

\* C13: after flip of a child A of a snarl P, children_of(P) holds the same
\* snarls as before, A's start is its old end negated and its end its old
\* start negated, and chains_of(P) returns the same snarls in the same
\* sequence as before.
C13_FlipKeepsChains ==
    last.op = "flip_child" =>
        /\ children_of(Mgr, last.P).ok
        /\ Range(children_of(Mgr, last.P).val)
               = Range(children_of(last.before, last.P).val)
        /\ snarls[last.arg].start
               = NodeVisit(last.before.snarls[last.arg].end.node_id,
                           ~last.before.snarls[last.arg].end.backward)
        /\ snarls[last.arg].end
               = NodeVisit(last.before.snarls[last.arg].start.node_id,
                           ~last.before.snarls[last.arg].start.backward)
        /\ \A ub \in UBOutcomes :
               chains_of(last.before, last.P, ub).status = "ok" =>
                   SameChains(chains_of(last.before, last.P, ub),
                              chains_of(Mgr, last.P, ub))

\* C14: manage of a snarl value whose key is not in index_of signals a
\* failure and returns no record, it fails in no other case, returning then
\* the stored record with that key, and it leaves the store and the indexes
\* unchanged.
C14_ManageFailsOnlyOnMissingKey ==
    [][\A not_owned \in NotOwnedValues :
          Manage(not_owned) =>
              /\ UNCHANGED <<snarls, index_of, snarl_into, parent, children, roots, net>>
              /\ (last'.res = Throw) <=> (key_form(not_owned) \notin DOMAIN index_of)
              /\ last'.res # Throw =>
                     /\ last'.res \in 1..Len(snarls)
                     /\ key_form(snarls[last'.res]) = key_form(not_owned)]_vars

\* C14 witness: manage has failed on a value whose key is not in index_of,
\* in a store that holds a record.
C14_Witness ==
    /\ last.op = "manage"
    /\ last.res = Throw
    /\ Len(snarls) > 0
    /\ key_form(last.arg) \notin DOMAIN index_of

-----------------------------------------------------------------------------
(* Handles and the backing graph *)

\* The backing graph holds at most MaxEdges edges between the nodes of the
\* net graph, besides the edges inside the children and outside the snarl.
MaxEdges == 2

\* A handle: a node read forward or in reverse.
get_handle(node_id, is_reverse) == <<node_id, is_reverse>>
get_id(handle) == handle[1]
get_is_reverse(handle) == handle[2]
graph_flip(handle) == <<handle[1], ~handle[2]>>

\* graph->get_handle(visit), visit a node visit.
VisitHandle(visit) == get_handle(visit.node_id, visit.backward)

\* A side of a node is <<id, is_right>>; an edge of the backing graph is the
\* set of the sides it joins (one side, for a loop that turns around).
\* A handle is left by its right side when read forward, and a node arrived
\* at by its right side is read in reverse.
LeavingSide(handle) == <<handle[1], ~handle[2]>>

OtherSides(edge, side) == IF edge = {side} THEN {side} ELSE edge \ {side}

Successors(graph, handle) ==
    UNION {OtherSides(e, LeavingSide(handle)) :
           e \in {e \in graph : LeavingSide(handle) \in e}}

Predecessors(graph, handle) ==
    {graph_flip(x) : x \in Successors(graph, graph_flip(handle))}

\* The order in which the backing graph hands out the handles of a set.
HandleRank(handle) == 2 * handle[1] + (IF handle[2] THEN 1 ELSE 0)

RECURSIVE InOrder(_)
InOrder(hs) ==
    IF hs = {} THEN <<>>
    ELSE LET h == CHOOSE h \in hs : \A g \in hs : HandleRank(h) <= HandleRank(g)
         IN <<h>> \o InOrder(hs \ {h})

-----------------------------------------------------------------------------
(* Chain ends *)

\* end_backward(chain): the last snarl shares its end node with the one
\* before it.
end_backward(m, chain) ==
    /\ Len(chain) > 1
    /\ \/ m.snarls[chain[Len(chain)]].end.node_id
              = m.snarls[chain[Len(chain) - 1]].start.node_id
       \/ m.snarls[chain[Len(chain)]].end.node_id
              = m.snarls[chain[Len(chain) - 1]].end.node_id

get_start(m, chain) ==
    IF start_backward(m, chain) THEN reverse(m.snarls[chain[1]].end)
    ELSE m.snarls[chain[1]].start

\* get_end(chain), which reads chain.front().
get_end(m, chain) ==
    IF end_backward(m, chain) THEN reverse(m.snarls[chain[1]].start)
    ELSE m.snarls[chain[1]].end

chain_rend(m, chain) ==
    [go_left |-> TRUE, backward |-> FALSE, pos |-> 1,
     chain_start |-> 1, chain_end |-> Len(chain) + 1, is_rend |-> TRUE]

\* chain_rbegin placed at the first element of the chain.
chain_rbegin_at_front(m, chain) ==
    IF chain = <<>> THEN chain_rend(m, chain)
    ELSE [go_left |-> TRUE, backward |-> end_backward(m, chain), pos |-> 1,
          chain_start |-> 1, chain_end |-> Len(chain) + 1, is_rend |-> FALSE]

chain_rbegin(m, chain) ==
    IF chain = <<>> THEN chain_rend(m, chain)
    ELSE [go_left |-> TRUE, backward |-> end_backward(m, chain), pos |-> Len(chain),
          chain_start |-> 1, chain_end |-> Len(chain) + 1, is_rend |-> FALSE]

\* for (it = first; it != chain_rend(chain); ++it): the (snarl, backward)
\* pairs the loop sees.
RECURSIVE IterateToREnd(_, _, _)
IterateToREnd(m, chain, it) ==
    IF it = chain_rend(m, chain) THEN <<>>
    ELSE <<[snarl |-> chain[it.pos], backward |-> it.backward]>>
            \o IterateToREnd(m, chain, ChainIterator_increment(m, chain, it))

-----------------------------------------------------------------------------
(* NetGraph: construction *)

\* NetGraph(start, end, graph, use_internal_connectivity).  child_chains_mixed
\* is not a field of the class: it keeps the constructor's argument.
NetGraphBase(start, end, graph, use_internal_connectivity) ==
    [built |-> TRUE, graph |-> graph,
     start |-> VisitHandle(start), end |-> VisitHandle(end),
     use_internal_connectivity |-> use_internal_connectivity,
     unary_boundaries |-> {}, chain_ends_by_start |-> EmptyMap,
     chain_end_rewrites |-> EmptyMap, connectivity |-> EmptyMap,
     child_chains_mixed |-> <<>>]

\* add_unary_child without the test of use_internal_connectivity.
add_unary_child_reach_always(ng, unary) ==
    [ng EXCEPT
       !.unary_boundaries = @ \cup {VisitHandle(unary.start)},
       !.connectivity =
           Put(@, unary.start.node_id,
               <<unary.start_self_reachable, unary.end_self_reachable,
                 unary.start_end_reachable>>)]

add_unary_child(ng, unary) ==
    [ng EXCEPT
       !.unary_boundaries = @ \cup {VisitHandle(unary.start)},
       !.connectivity =
           Put(@, unary.start.node_id,
               IF ng.use_internal_connectivity
               THEN <<unary.start_self_reachable, unary.end_self_reachable,
                      unary.start_end_reachable>>
               ELSE <<FALSE, FALSE, FALSE>>)]

\* A child's reachabilities read as stored, whichever way the chain reads it.
OrientedReach_as_stored(snarl, backward) ==
    [start_self_reachable |-> snarl.start_self_reachable,
     end_self_reachable |-> snarl.end_self_reachable,
     start_end_reachable |-> snarl.start_end_reachable]

\* A child's reachabilities as the chain reads it.
OrientedReach(snarl, backward) ==
    [start_self_reachable |-> IF backward THEN snarl.end_self_reachable
                              ELSE snarl.start_self_reachable,
     end_self_reachable |-> IF backward THEN snarl.start_self_reachable
                            ELSE snarl.end_self_reachable,
     start_end_reachable |-> snarl.start_end_reachable]

\* The loop from chain_begin: acc is <<connected_left_left,
\* connected_left_right>>.
RECURSIVE ScanFromLeft(_, _, _)
ScanFromLeft(m, seq, acc) ==
    IF seq = <<>> THEN acc
    ELSE LET r == OrientedReach(m.snarls[Head(seq).snarl], Head(seq).backward)
             left_left == acc[1] \/ r.start_self_reachable
         IN IF ~r.start_end_reachable THEN <<left_left, FALSE>>
            ELSE ScanFromLeft(m, Tail(seq), <<left_left, acc[2]>>)

\* The loop from chain_rbegin: connected_right_right.
RECURSIVE ScanFromRight(_, _)
ScanFromRight(m, seq) ==
    IF seq = <<>> THEN FALSE
    ELSE LET r == OrientedReach(m.snarls[Head(seq).snarl], Head(seq).backward)
         IN IF r.end_self_reachable THEN TRUE
            ELSE IF ~r.start_end_reachable THEN FALSE
            ELSE ScanFromRight(m, Tail(seq))

add_chain_child(ng, m, chain) ==
    LET chain_start_handle == VisitHandle(get_start(m, chain))
        chain_end_handle == VisitHandle(get_end(m, chain))
        left == ScanFromLeft(m, IterateToEnd(m, chain, chain_begin(m, chain)),
                             <<FALSE, TRUE>>)
        connected_right_right ==
            ScanFromRight(m, IterateToREnd(m, chain, chain_rbegin(m, chain)))
    IN [ng EXCEPT
          !.chain_ends_by_start = Put(@, chain_start_handle, chain_end_handle),
          !.chain_end_rewrites =
              Put(@, graph_flip(chain_end_handle), graph_flip(chain_start_handle)),
          !.connectivity =
              Put(@, get_id(chain_start_handle),
                  IF ng.use_internal_connectivity
                  THEN <<left[1], connected_right_right, left[2]>>
                  ELSE <<FALSE, FALSE, TRUE>>)]

\* The loop of the constructor over child_chains_mixed, from the k-th on.
RECURSIVE AddChildren(_, _, _, _)
AddChildren(ng, m, chains, k) ==
    IF k > Len(chains) THEN ng
    ELSE AddChildren(
           IF Len(chains[k]) = 1 /\ m.snarls[chains[k][1]].type = "UNARY"
           THEN add_unary_child(ng, m.snarls[chains[k][1]])
           ELSE add_chain_child(ng, m, chains[k]),
           m, chains, k + 1)

\* NetGraph(start, end, child_chains_mixed, graph, use_internal_connectivity).
NetGraph(start, end, m, child_chains_mixed, graph, use_internal_connectivity) ==
    [AddChildren(NetGraphBase(start, end, graph, use_internal_connectivity),
                 m, child_chains_mixed, 1)
       EXCEPT !.child_chains_mixed = child_chains_mixed]

-----------------------------------------------------------------------------
(* NetGraph: follow_edges *)

\* What one call of follow_edges has done so far: the set seen, the handles
\* the iteratee was invoked with, in order, and whether every invocation so
\* far returned true.  descending is the order in which the backing graph
\* hands out edges during this call.
NoEmissions(descending) ==
    [seen |-> {}, emitted |-> <<>>, go |-> TRUE, descending |-> descending]

\* iteratee(real_handle) for an iteratee that returns false at its stop-th
\* invocation, and never when stop = 0.
iteratee(stop, es, real_handle) ==
    [es EXCEPT !.emitted = Append(@, real_handle),
               !.go = (Len(es.emitted) + 1 # stop)]

\* real_handle, before any flip.
Rewritten(ng, other) ==
    IF other \in DOMAIN ng.chain_end_rewrites THEN ng.chain_end_rewrites[other]
    ELSE IF graph_flip(other) \in DOMAIN ng.chain_end_rewrites
         THEN graph_flip(ng.chain_end_rewrites[graph_flip(other)])
    ELSE other

handle_edge_without_seen(ng, stop, es, other) ==
    iteratee(stop, es, Rewritten(ng, other))

handle_edge(ng, stop, es, other) ==
    LET real_handle == Rewritten(ng, other)
    IN IF real_handle \notin es.seen
       THEN iteratee(stop, [es EXCEPT !.seen = @ \cup {real_handle}], real_handle)
       ELSE es

flip_and_handle_edge(ng, stop, es, other) ==
    LET real_handle == graph_flip(Rewritten(ng, other))
    IN IF real_handle \notin es.seen
       THEN iteratee(stop, [es EXCEPT !.seen = @ \cup {real_handle}], real_handle)
       ELSE es

\* graph->follow_edges(handle, go_left, callback) of the backing graph: the
\* callback on each edge in turn, until one returns false.  flipping picks
\* flip_and_handle_edge as the callback, and handle_edge otherwise.
RECURSIVE ForEachEdge(_, _, _, _, _)
ForEachEdge(ng, stop, es, todo, flipping) ==
    IF todo = <<>> \/ ~es.go THEN es
    ELSE ForEachEdge(ng, stop,
                     IF flipping THEN flip_and_handle_edge(ng, stop, es, Head(todo))
                     ELSE handle_edge(ng, stop, es, Head(todo)),
                     Tail(todo), flipping)

Backwards(seq) == [j \in 1..Len(seq) |-> seq[Len(seq) + 1 - j]]

graph_follow_edges(ng, stop, es, handle, go_left, flipping) ==
    LET found == InOrder(IF go_left THEN Predecessors(ng.graph, handle)
                         ELSE Successors(ng.graph, handle))
    IN ForEachEdge(ng, stop, es,
                   IF es.descending THEN Backwards(found) ELSE found, flipping)

\* if (!graph->follow_edges(...)) return false;  for a call that has gone on
\* after the iteratee returned false.
follow_or_return_ignoring_false(ng, stop, es, handle, go_left, flipping) ==
    graph_follow_edges(ng, stop, [es EXCEPT !.go = TRUE], handle, go_left, flipping)

\* if (!graph->follow_edges(...)) return false;  nothing after the return
\* runs.
follow_or_return(ng, stop, es, handle, go_left, flipping) ==
    IF es.go THEN graph_follow_edges(ng, stop, es, handle, go_left, flipping)
    ELSE es

at_bound_end_only(ng, handle, go_left) ==
    \/ handle = ng.end /\ ~go_left
    \/ handle = graph_flip(ng.end) /\ go_left

\* The test for looking outside of the snarl.
at_bound(ng, handle, go_left) ==
    \/ handle = ng.end /\ ~go_left
    \/ handle = graph_flip(ng.end) /\ go_left
    \/ handle = graph_flip(ng.start) /\ ~go_left
    \/ handle = ng.start /\ go_left

\* NetGraph::follow_edges(handle, go_left, iteratee): the invocations of the
\* iteratee and the value returned.
follow_edges(ng, handle, go_left, stop, descending) ==
    LET es0 == NoEmissions(descending)
        ends == ng.chain_ends_by_start
        If(cond, es, h, left, flipping) ==
            IF cond THEN follow_or_return(ng, stop, es, h, left, flipping) ELSE es
        done ==
            IF at_bound(ng, handle, go_left) THEN es0
            ELSE IF handle \in DOMAIN ends \/ graph_flip(handle) \in DOMAIN ends
            THEN LET c == ng.connectivity[get_id(handle)]
                 IN IF handle \in DOMAIN ends
                    THEN IF go_left
                         THEN If(c[3], If(c[2], es0, ends[handle], FALSE, TRUE),
                                 handle, TRUE, FALSE)
                         ELSE If(c[3], If(c[1], es0, handle, TRUE, TRUE),
                                 ends[handle], FALSE, FALSE)
                    ELSE IF go_left
                         THEN If(c[3], If(c[1], es0, handle, FALSE, TRUE),
                                 ends[graph_flip(handle)], FALSE, TRUE)
                         ELSE If(c[3], If(c[2], es0, ends[graph_flip(handle)], FALSE, FALSE),
                                 handle, FALSE, FALSE)
            ELSE IF handle \in ng.unary_boundaries
                    \/ graph_flip(handle) \in ng.unary_boundaries
            THEN LET c == ng.connectivity[get_id(handle)]
                     any == c[1] \/ c[2] \/ c[3]
                 IN IF handle \in ng.unary_boundaries
                    THEN IF go_left
                         THEN If(~ng.use_internal_connectivity, es0, handle, TRUE, FALSE)
                         ELSE If(any, es0, handle, TRUE, TRUE)
                    ELSE IF go_left
                         THEN If(any, es0, handle, FALSE, FALSE)
                         ELSE If(~ng.use_internal_connectivity, es0, handle, FALSE, TRUE)
            ELSE follow_or_return(ng, stop, es0, handle, go_left, FALSE)
    IN [emitted |-> done.emitted, returned |-> done.go]

-----------------------------------------------------------------------------
(* Net graphs of a snarl with at most one child chain *)

\* The three reachabilities the finder computes for a snarl.
Reach == [start_self_reachable : BOOLEAN, end_self_reachable : BOOLEAN,
          start_end_reachable : BOOLEAN]

NetSnarl(s, sb, e, eb, type, has, r) ==
    [start |-> NodeVisit(s, sb), end |-> NodeVisit(e, eb), type |-> type,
     has_parent |-> has,
     parent |-> IF has THEN [start |-> NodeVisit(1, FALSE), end |-> NodeVisit(2, FALSE)]
                ELSE NoSnarl,
     start_self_reachable |-> r.start_self_reachable,
     end_self_reachable |-> r.end_self_reachable,
     start_end_reachable |-> r.start_end_reachable]

\* The snarl 1 -> 2 whose net graph is built.
NetParent ==
    NetSnarl(1, FALSE, 2, FALSE, "UNCLASSIFIED", FALSE,
             [start_self_reachable |-> FALSE, end_self_reachable |-> FALSE,
              start_end_reachable |-> TRUE])

Side(n, is_right) == <<n, is_right>>

\* What lies in the snarl besides node 3: the child snarls, the chains they
\* make (positions in the store, the parent being first), the edges inside
\* the children, and the sides by which the rest of the snarl reaches them.
\* A unary child on node 4 or on the start node, a chain of one snarl
\* between 4 and 5 or between 4 and the end node, a chain of two snarls
\* from 4 to 6 with each snarl stored either way round.
NetLayouts(r) ==
    {[kids |-> <<>>, chains |-> <<>>, inside |-> {},
      sides |-> {Side(1, TRUE), Side(2, FALSE)}]}
    \cup
    {[kids |-> <<NetSnarl(4, FALSE, 4, TRUE, "UNARY", TRUE, r)>>,
      chains |-> << <<2>> >>, inside |-> {{Side(4, TRUE)}},
      sides |-> {Side(1, TRUE), Side(2, FALSE), Side(4, FALSE)}],
     [kids |-> <<NetSnarl(1, FALSE, 1, TRUE, "UNARY", TRUE, r)>>,
      chains |-> << <<2>> >>, inside |-> {{Side(1, TRUE)}},
      sides |-> {Side(2, FALSE)}],
     [kids |-> <<NetSnarl(4, FALSE, 5, FALSE, "ULTRABUBBLE", TRUE, r)>>,
      chains |-> << <<2>> >>, inside |-> {{Side(4, TRUE), Side(5, FALSE)}},
      sides |-> {Side(1, TRUE), Side(2, FALSE), Side(4, FALSE), Side(5, TRUE)}],
     [kids |-> <<NetSnarl(2, TRUE, 4, TRUE, "ULTRABUBBLE", TRUE, r)>>,
      chains |-> << <<2>> >>, inside |-> {{Side(2, FALSE), Side(4, TRUE)}},
      sides |-> {Side(1, TRUE), Side(4, FALSE)}]}
    \cup
    {[kids |-> <<a, b>>, chains |-> << <<2, 3>> >>,
      inside |-> {{Side(4, TRUE), Side(5, FALSE)}, {Side(5, TRUE), Side(6, FALSE)}},
      sides |-> {Side(1, TRUE), Side(2, FALSE), Side(4, FALSE), Side(6, TRUE)}] :
        a \in {NetSnarl(4, FALSE, 5, FALSE, "ULTRABUBBLE", TRUE, r),
               NetSnarl(5, TRUE, 4, TRUE, "ULTRABUBBLE", TRUE, r)},
        b \in {NetSnarl(5, FALSE, 6, FALSE, "ULTRABUBBLE", TRUE, r),
               NetSnarl(6, TRUE, 5, TRUE, "ULTRABUBBLE", TRUE, r)}}

\* The edges the backing graph may have between the sides in ss: each joins
\* two of them.
EdgesAmong(ss) == {e \in {{x, y} : x, y \in ss} : Cardinality(e) = 2}

\* The sets of at most n edges of es.
RECURSIVE EdgeSets(_, _)
EdgeSets(es, n) ==
    IF n = 0 THEN {{}}
    ELSE LET smaller == EdgeSets(es, n - 1)
         IN smaller \cup UNION {{g \cup {e} : e \in es} : g \in smaller}

\* The edge outside the snarl: from the right of node 2 round to the left
\* of node 1.
OutsideEdge == {Side(2, TRUE), Side(1, FALSE)}

\* The reachabilities tried: all of them when the net graph uses them, and
\* the two extremes when it does not.
ReachFor(use_internal_connectivity) ==
    IF use_internal_connectivity THEN Reach
    ELSE {r \in Reach : r.start_self_reachable = r.end_self_reachable
                        /\ r.end_self_reachable = r.start_end_reachable}

\* The backing graphs over a layout: at most max_edges edges among the sides
\* of node 3 and the sides the layout leaves open, the edges inside the
\* children, and the edge outside the snarl.
BackingGraphs(lay, max_edges) ==
    {g \cup lay.inside \cup {OutsideEdge} :
        g \in EdgeSets(EdgesAmong(lay.sides \cup {Side(3, FALSE), Side(3, TRUE)}),
                       max_edges)}

\* The state after the manager was built over the snarl and its children and
\* the net graph over their chains.
InitNet ==
    \E use_internal_connectivity \in BOOLEAN :
      \E r \in ReachFor(use_internal_connectivity) :
        \E lay \in NetLayouts(r) :
          LET store == <<NetParent>> \o lay.kids
              m == Construct(store)
          IN \E graph \in BackingGraphs(lay, MaxEdges) :
                /\ snarls = store
                /\ index_of = m.index_of
                /\ snarl_into = m.snarl_into
                /\ parent = m.parent
                /\ children = m.children
                /\ roots = m.roots
                /\ net = NetGraph(store[1].start, store[1].end, m, lay.chains,
                                  graph, use_internal_connectivity)
                /\ last = [op |-> "net_graph"]

\* The nodes of the net graph: the boundary nodes, node 3 and the node that
\* stands for the child.
NetNodes(ng) ==
    {get_id(ng.start), get_id(ng.end), 3}
        \cup {get_id(h) : h \in ng.unary_boundaries \cup DOMAIN ng.chain_ends_by_start}

NetHandles(ng) == {get_handle(n, b) : n \in NetNodes(ng), b \in BOOLEAN}

\* A call of follow_edges on the net graph just built, with an iteratee that
\* returns false at its stop-th invocation, if it has one.
FollowEdges(handle, go_left, stop) ==
    /\ last.op = "net_graph"
    /\ handle \in NetHandles(net)
    /\ stop \in 0..Len(follow_edges(net, handle, go_left, 0, FALSE).emitted)
    /\ last' = [op |-> "follow_edges", handle |-> handle, go_left |-> go_left,
                stop |-> stop,
                res |-> follow_edges(net, handle, go_left, stop, FALSE)]
    /\ UNCHANGED <<snarls, index_of, snarl_into, parent, children, roots, net>>

\* The same call once more with an iteratee that collects, the backing graph
\* handing out its edges in the other order.
FollowEdgesAgain ==
    /\ last.op = "follow_edges"
    /\ last.stop = 0
    /\ last' = [op |-> "follow_edges_again", handle |-> last.handle,
                go_left |-> last.go_left, stop |-> 0, first |-> last.res,
                res |-> follow_edges(net, last.handle, last.go_left, 0, TRUE)]
    /\ UNCHANGED <<snarls, index_of, snarl_into, parent, children, roots, net>>

NextNet ==
    \/ \E handle \in NetHandles(net), go_left \in BOOLEAN, stop \in 0..(2 * MaxEdges + 2) :
            FollowEdges(handle, go_left, stop)
    \/ FollowEdgesAgain

SpecNet == InitNet /\ [][NextNet]_vars

-----------------------------------------------------------------------------
(* Properties of follow_edges *)

Called == last.op \in {"follow_edges", "follow_edges_again"}

\* handle read in this direction looks out of the snarl through its start
\* or its end.
ReadsOut(handle, go_left) ==
    \/ handle = net.end /\ ~go_left
    \/ handle = graph_flip(net.end) /\ go_left
    \/ handle = graph_flip(net.start) /\ ~go_left
    \/ handle = net.start /\ go_left

\* C15: a call of follow_edges on a handle that reads out of the snarl never
\* invokes the visitor and returns true, also when the handle is a chain
\* head or the boundary of a unary child.
C15_BoundReturnsTrue ==
    (Called /\ ReadsOut(last.handle, last.go_left))
        => (last.res.emitted = <<>> /\ last.res.returned)

\* C15 witness: the call was on a handle that reads out of the snarl and is
\* a chain head or a unary boundary, and the backing graph has an edge there.
C15_Witness ==
    /\ last.op = "follow_edges"
    /\ ReadsOut(last.handle, last.go_left)
    /\ last.handle \in net.unary_boundaries \cup DOMAIN net.chain_ends_by_start
    /\ (IF last.go_left THEN Predecessors(net.graph, last.handle)
        ELSE Successors(net.graph, last.handle)) # {}
    /\ last.res.emitted = <<>>
    /\ last.res.returned

NoDuplicates(seq) == \A i, j \in 1..Len(seq) : seq[i] = seq[j] => i = j

\* C16: within one call of follow_edges the visitor is never invoked twice
\* with the same handle, whatever the handle and the direction, and a
\* repeated call with the same arguments yields the same set of handles.
C16_NoDuplicateEmission ==
    /\ Called => NoDuplicates(last.res.emitted)
    /\ last.op = "follow_edges_again"
           => Range(last.res.emitted) = Range(last.first.emitted)

\* C16 witness: a call on a chain head whose turn-around and straight-through
\* traversals both reach the same neighbour, repeated.
C16_Witness ==
    /\ last.op = "follow_edges_again"
    /\ last.handle \in DOMAIN net.chain_ends_by_start
    /\ ~last.go_left
    /\ net.connectivity[get_id(last.handle)][1]
    /\ net.connectivity[get_id(last.handle)][3]
    /\ \E x \in Predecessors(net.graph, last.handle),
          y \in Successors(net.graph, net.chain_ends_by_start[last.handle]) :
            graph_flip(Rewritten(net, x)) = Rewritten(net, y)
    /\ last.res.emitted # <<>>

\* The node at the far end of a child chain: that of the trailing boundary
\* of the last snarl the chain's iteration reaches.
TailNode(chain) ==
    LET seq == IterateToEnd(Mgr, chain, chain_begin(Mgr, chain))
    IN Trailing(snarls[seq[Len(seq)].snarl], seq[Len(seq)].backward)

\* The chains that are not a unary snarl on its own.
ChainChildren ==
    {net.child_chains_mixed[k] : k \in
        {k \in 1..Len(net.child_chains_mixed) :
            ~(Len(net.child_chains_mixed[k]) = 1
              /\ snarls[net.child_chains_mixed[k][1]].type = "UNARY")}}

\* C17: no handle the visitor receives from follow_edges is on the tail of a
\* child chain, whatever the length of the chain: an edge that lands on the
\* end of a chain is reported as its head.
C17_NoTailEmitted ==
    Called => \A i \in 1..Len(last.res.emitted) :
                  \A chain \in ChainChildren :
                      get_id(last.res.emitted[i]) # TailNode(chain)

Emits(handle, go_left) ==
    Range(follow_edges(net, handle, go_left, 0, FALSE).emitted)

\* C18: when follow_edges on h emits h2, and neither h in that direction nor
\* the flip of h2 in that direction reads out of the snarl, follow_edges on
\* the flip of h2 in the same direction emits the flip of h.
C18_EdgeSymmetry ==
    (last.op = "follow_edges" /\ last.stop = 0)
        => \A h2 \in Range(last.res.emitted) :
               (/\ ~ReadsOut(last.handle, last.go_left)
                /\ ~ReadsOut(graph_flip(h2), last.go_left))
                   => graph_flip(last.handle) \in Emits(graph_flip(h2), last.go_left)

\* The handle by which a unary child is entered, when the call is on one
\* that does not read out of the snarl.
OnUnaryBoundary ==
    /\ Called
    /\ last.handle \in net.unary_boundaries
    /\ ~ReadsOut(last.handle, last.go_left)

AnyConnectivity(handle) ==
    \/ net.connectivity[get_id(handle)][1]
    \/ net.connectivity[get_id(handle)][2]
    \/ net.connectivity[get_id(handle)][3]

\* What a turn-around at handle hands the visitor: each predecessor in the
\* backing graph, rewritten and then flipped.
TurnAround(handle) ==
    {graph_flip(Rewritten(net, x)) : x \in Predecessors(net.graph, handle)}

\* C19, as stated: for the inward-facing boundary U of a unary child,
\* follow_edges(U, go_left = false) emits nothing whatever the connectivity
\* flags and the setting of use_internal_connectivity.
C19_UnaryEmitsNothing ==
    (OnUnaryBoundary /\ ~last.go_left) => last.res.emitted = <<>>

\* C19, amended: follow_edges(U, go_left = false) emits nothing when all of
\* the connectivity recorded for the child is false, as it is whenever
\* use_internal_connectivity is false; when some of it is true, a collecting
\* visitor receives exactly the turn-around of U's predecessors.
C19_UnaryTurnAround ==
    (OnUnaryBoundary /\ ~last.go_left)
        => /\ ~net.use_internal_connectivity => ~AnyConnectivity(last.handle)
           /\ ~AnyConnectivity(last.handle) => last.res.emitted = <<>>
           /\ (AnyConnectivity(last.handle) /\ last.stop = 0)
                  => Range(last.res.emitted) = TurnAround(last.handle)
           /\ Range(last.res.emitted) \subseteq TurnAround(last.handle)

\* C19 witness: a call on U going right that turned around, and so emitted.
C19_Witness ==
    /\ OnUnaryBoundary
    /\ ~last.go_left
    /\ last.stop = 0
    /\ AnyConnectivity(last.handle)
    /\ last.res.emitted # <<>>

\* The visitor returned false in this call: it was invoked a stop-th time.
VisitorReturnedFalse == last.stop \in 1..Len(last.res.emitted)

\* C20: follow_edges returns false exactly when some invocation of the
\* visitor returned false; the visitor is not invoked again after it has
\* returned false; and follow_edges returns true when the visitor always
\* returns true.
C20_StopsWhenVisitorSaysSo ==
    Called => /\ ~last.res.returned <=> VisitorReturnedFalse
              /\ VisitorReturnedFalse => Len(last.res.emitted) = last.stop
              /\ last.stop = 0 => last.res.returned

\* C20 witness: a call on a chain head with a turn-around and a
\* straight-through traversal, in which the visitor returned false once the
\* turn-around's edges were out and before the call had handed it every edge.
C20_Witness ==
    /\ last.op = "follow_edges"
    /\ VisitorReturnedFalse
    /\ ~last.res.returned
    /\ last.handle \in DOMAIN net.chain_ends_by_start
    /\ ~last.go_left
    /\ net.connectivity[get_id(last.handle)][1]
    /\ net.connectivity[get_id(last.handle)][3]
    /\ Len(last.res.emitted) < Len(follow_edges(net, last.handle, FALSE, 0, FALSE).emitted)
    /\ \A x \in Predecessors(net.graph, last.handle) :
           graph_flip(Rewritten(net, x)) \in Range(last.res.emitted)

-----------------------------------------------------------------------------
(* Chains of up to MaxChain snarls: iteration, and the net graph over one *)

MaxChain == 2

\* The ways of storing n snarls that follow one another from node 4 on: the
\* k-th lies between nodes 3 + k and 4 + k, stored forward or reversed, with
\* any reachabilities.
RECURSIVE ChainKids(_)
ChainKids(n) ==
    IF n = 0 THEN {<<>>}
    ELSE UNION {UNION {{Append(kids, NetSnarl(3 + n, FALSE, 4 + n, FALSE, "ULTRABUBBLE", TRUE, r)),
                        Append(kids, NetSnarl(4 + n, TRUE, 3 + n, TRUE, "ULTRABUBBLE", TRUE, r))} :
                       r \in Reach} :
                kids \in ChainKids(n - 1)}

\* The children under the snarl 1 -> 2: a chain of up to MaxChain snarls, or
\* one unary snarl.
ChildrenOfOneChain ==
    UNION {ChainKids(n) : n \in 0..MaxChain}
        \cup {<<NetSnarl(4, FALSE, 4, TRUE, "UNARY", TRUE, r)>> : r \in Reach}

\* The edges that lead through the children, and round the unary one.
EdgesInside(kids) ==
    {IF IsUnaryShape(kids[k]) THEN {Side(4, TRUE)}
     ELSE {Side(3 + k, TRUE), Side(4 + k, FALSE)} : k \in 1..Len(kids)}

\* The state after the manager was built over the snarl and its children;
\* last.chain is the chain the children make, as positions in the store.
InitChains ==
    \E kids \in ChildrenOfOneChain :
        LET store == <<NetParent>> \o kids
            m == Construct(store)
        IN /\ snarls = store
           /\ index_of = m.index_of
           /\ snarl_into = m.snarl_into
           /\ parent = m.parent
           /\ children = m.children
           /\ roots = m.roots
           /\ net = NoNetGraph
           /\ last = [op |-> "chain", chain |-> [k \in 1..Len(kids) |-> k + 1]]

\* NetGraph(start, end, {chain}, graph, use_internal_connectivity).
BuildNetGraph(use_internal_connectivity) ==
    /\ ~net.built
    /\ last.chain # <<>>
    /\ net' = NetGraph(snarls[1].start, snarls[1].end, Mgr, <<last.chain>>,
                       EdgesInside(SubSeq(snarls, 2, Len(snarls))) \cup {OutsideEdge},
                       use_internal_connectivity)
    /\ last' = [op |-> "net_graph", chain |-> last.chain]
    /\ UNCHANGED <<snarls, index_of, snarl_into, parent, children, roots>>

\* ++ applied n times to it: the iterators before each increment and after
\* the last.
RECURSIVE Increments(_, _, _, _)
Increments(m, chain, it, n) ==
    IF n = 0 THEN <<it>>
    ELSE <<it>> \o Increments(m, chain, ChainIterator_increment(m, chain, it), n - 1)

\* Len(chain) increments from chain_begin(chain), or from chain_rbegin(chain).
Iterate(go_left) ==
    /\ last.op \in {"chain", "net_graph"}
    /\ last' = [op |-> "iterate", chain |-> last.chain, go_left |-> go_left,
                its |-> Increments(Mgr, last.chain,
                                   IF go_left THEN chain_rbegin(Mgr, last.chain)
                                   ELSE chain_begin(Mgr, last.chain),
                                   Len(last.chain))]
    /\ UNCHANGED <<snarls, index_of, snarl_into, parent, children, roots, net>>

NextChains ==
    \/ \E use_internal_connectivity \in BOOLEAN : BuildNetGraph(use_internal_connectivity)
    \/ \E go_left \in BOOLEAN : Iterate(go_left)

SpecChains == InitChains /\ [][NextChains]_vars

-----------------------------------------------------------------------------
(* NetGraph: for_each_handle and node_size *)

\* handle_edge of for_each_handle over the edges found, in turn: q is the
\* queue and the set queued.
RECURSIVE QueueUp(_, _)
QueueUp(q, found) ==
    IF found = <<>> THEN q
    ELSE QueueUp(IF get_id(Head(found)) \notin q.queued
                 THEN [queue |-> Append(q.queue, Head(found)),
                       queued |-> q.queued \cup {get_id(Head(found))}]
                 ELSE q,
                 Tail(found))

\* here, once a backward unary boundary, chain head or chain tail has been
\* turned round.
LookedAtForward(ng, here) ==
    IF \/ graph_flip(here) \in ng.unary_boundaries
       \/ graph_flip(here) \in DOMAIN ng.chain_ends_by_start
       \/ graph_flip(here) \in DOMAIN ng.chain_end_rewrites
    THEN graph_flip(here)
    ELSE here

\* The handle the iteratee gets for here: its forward version.
EmittedHandle(here) ==
    IF get_is_reverse(here) THEN graph_flip(here) ELSE here

\* The four calls of the backing graph's follow_edges for here, each with
\* its condition.
QueueNeighbours(ng, q, here) ==
    LET If(cond, q0, found) == IF cond THEN QueueUp(q0, InOrder(found)) ELSE q0
        q1 == If(/\ here # ng.end
                 /\ here # graph_flip(ng.start)
                 /\ here \notin ng.unary_boundaries
                 /\ here \notin DOMAIN ng.chain_ends_by_start
                 /\ here \notin DOMAIN ng.chain_end_rewrites,
                 q, Successors(ng.graph, here))
        q2 == If(here # ng.start /\ here # graph_flip(ng.end),
                 q1, Predecessors(ng.graph, here))
        q3 == If(here \in DOMAIN ng.chain_end_rewrites,
                 q2, Successors(ng.graph, ng.chain_end_rewrites[here]))
    IN If(here \in DOMAIN ng.chain_ends_by_start,
          q3, Successors(ng.graph, ng.chain_ends_by_start[here]))

\* The while loop of for_each_handle, for an iteratee that returns false at
\* its stop-th invocation, and never when stop = 0.
RECURSIVE HandleLoop(_, _, _, _)
HandleLoop(ng, stop, q, emitted) ==
    IF q.queue = <<>> THEN emitted
    ELSE LET here == LookedAtForward(ng, Head(q.queue))
             rest == [q EXCEPT !.queue = Tail(@)]
             emits == here \notin DOMAIN ng.chain_end_rewrites
             out == IF emits THEN Append(emitted, EmittedHandle(here)) ELSE emitted
         IN IF emits /\ Len(out) = stop THEN out
            ELSE HandleLoop(ng, stop, QueueNeighbours(ng, rest, here), out)

\* NetGraph::for_each_handle(iteratee): the handles the iteratee is invoked
\* with, in order.
for_each_handle(ng, stop) ==
    HandleLoop(ng, stop,
               [queue |-> <<ng.start, ng.end>>,
                queued |-> {get_id(ng.start), get_id(ng.end)}],
               <<>>)

\* NetGraph::node_size(): one count for each invocation of the iteratee.
node_size(ng) == Len(for_each_handle(ng, 0))

\* The snarl whose net graph is built: 1 -> 2, or the unary snarl on node 1.
NetParents ==
    {NetParent,
     NetSnarl(1, FALSE, 1, TRUE, "UNARY", FALSE,
              [start_self_reachable |-> TRUE, end_self_reachable |-> TRUE,
               start_end_reachable |-> TRUE])}

\* The layouts of NetLayouts whose children keep off the boundary nodes, as
\* children of P.
LayoutsUnder(P, r) ==
    {[kids |-> [k \in 1..Len(lay.kids) |->
                   [lay.kids[k] EXCEPT !.parent = [start |-> P.start, end |-> P.end]]],
      chains |-> lay.chains, inside |-> lay.inside,
      sides |-> IF IsUnaryShape(P) THEN lay.sides \ {Side(2, FALSE)} ELSE lay.sides] :
        lay \in {l \in NetLayouts(r) :
                    \A k \in 1..Len(l.kids) : l.kids[k].start.node_id > 2
                                              /\ l.kids[k].end.node_id > 2}}

\* The state after the manager was built over a snarl and its children and
\* the net graph over their chains.
InitHandles ==
    \E P \in NetParents, use_internal_connectivity \in BOOLEAN :
      \E lay \in LayoutsUnder(P, [start_self_reachable |-> FALSE,
                                  end_self_reachable |-> FALSE,
                                  start_end_reachable |-> TRUE]) :
          LET store == <<P>> \o lay.kids
              m == Construct(store)
          IN \E graph \in BackingGraphs(lay, MaxEdges) :
                /\ snarls = store
                /\ index_of = m.index_of
                /\ snarl_into = m.snarl_into
                /\ parent = m.parent
                /\ children = m.children
                /\ roots = m.roots
                /\ net = NetGraph(P.start, P.end, m, lay.chains, graph,
                                  use_internal_connectivity)
                /\ last = [op |-> "net_graph"]

\* A call of for_each_handle on the net graph just built, with an iteratee
\* that returns false at its stop-th invocation, if it has one.
ForEachHandle(stop) ==
    /\ last.op = "net_graph"
    /\ last' = [op |-> "for_each_handle", stop |-> stop,
                emitted |-> for_each_handle(net, stop)]
    /\ UNCHANGED <<snarls, index_of, snarl_into, parent, children, roots, net>>

\* A call of node_size after a for_each_handle that collected.
NodeSize ==
    /\ last.op = "for_each_handle"
    /\ last.stop = 0
    /\ last' = [op |-> "node_size", emitted |-> last.emitted, res |-> node_size(net)]
    /\ UNCHANGED <<snarls, index_of, snarl_into, parent, children, roots, net>>

NextHandles ==
    \/ \E stop \in 0..Len(for_each_handle(net, 0)) : ForEachHandle(stop)
    \/ NodeSize

SpecHandles == InitHandles /\ [][NextHandles]_vars

-----------------------------------------------------------------------------
(* Properties of chains and of the construction of net graphs *)

\* The chains the net graph was built over.
ChildChains == Range(net.child_chains_mixed)

\* C25: get_start of a non-empty chain is the first snarl's start, or the
\* reverse of its end when start_backward holds; get_end is the last snarl's
\* end, or the reverse of its start when end_backward holds.
C25_ChainEnds ==
    net.built =>
        \A chain \in ChildChains :
            /\ get_start(Mgr, chain)
                   = IF start_backward(Mgr, chain) THEN reverse(snarls[chain[1]].end)
                     ELSE snarls[chain[1]].start
            /\ get_end(Mgr, chain)
                   = IF end_backward(Mgr, chain)
                     THEN reverse(snarls[chain[Len(chain)]].start)
                     ELSE snarls[chain[Len(chain)]].end

\* C27, as stated: a net graph built without internal connectivity records
\* (false, false, true) for every child, chain or unary snarl.
C27_ThroughNodes ==
    (net.built /\ ~net.use_internal_connectivity)
        => \A n \in DOMAIN net.connectivity :
               net.connectivity[n] = <<FALSE, FALSE, TRUE>>

\* C27, amended: a net graph built without internal connectivity records
\* (false, false, true) for every child chain and (false, false, false) for
\* every unary child.
C27_ThroughChainsOnly ==
    (net.built /\ ~net.use_internal_connectivity)
        => /\ \A h \in DOMAIN net.chain_ends_by_start :
                  net.connectivity[get_id(h)] = <<FALSE, FALSE, TRUE>>
           /\ \A h \in net.unary_boundaries :
                  net.connectivity[get_id(h)] = <<FALSE, FALSE, FALSE>>
           /\ DOMAIN net.connectivity
                  = {get_id(h) : h \in DOMAIN net.chain_ends_by_start \cup net.unary_boundaries}

\* C27 witness: a net graph built without internal connectivity over a unary
\* child whose own reachabilities are all true.
C27_Witness ==
    /\ net.built
    /\ ~net.use_internal_connectivity
    /\ net.unary_boundaries # {}
    /\ snarls[2].start_self_reachable
    /\ snarls[2].end_self_reachable
    /\ snarls[2].start_end_reachable

\* The elements of a chain as the chain reads them, first to last.
OrientedElements(chain) ==
    LET seq == IterateToEnd(Mgr, chain, chain_begin(Mgr, chain))
    IN [k \in 1..Len(seq) |->
           [start_self_reachable |->
                IF seq[k].backward THEN snarls[seq[k].snarl].end_self_reachable
                ELSE snarls[seq[k].snarl].start_self_reachable,
            end_self_reachable |->
                IF seq[k].backward THEN snarls[seq[k].snarl].start_self_reachable
                ELSE snarls[seq[k].snarl].end_self_reachable,
            start_end_reachable |-> snarls[seq[k].snarl].start_end_reachable]]

\* C28: with internal connectivity, the triple recorded for a child chain
\* e1..en is: start_start, some ei is start-self-reachable with every
\* element before it start-end-reachable; end_end, some ei is
\* end-self-reachable with every element after it start-end-reachable;
\* start_end, every ei is start-end-reachable.
C28_ChainConnectivity ==
    (net.built /\ net.use_internal_connectivity)
        => \A chain \in ChainChildren :
               LET e == OrientedElements(chain)
                   n == Len(e)
               IN net.connectivity[get_start(Mgr, chain).node_id]
                      = << \E i \in 1..n : /\ e[i].start_self_reachable
                                          /\ \A j \in 1..(i - 1) : e[j].start_end_reachable,
                           \E i \in 1..n : /\ e[i].end_self_reachable
                                          /\ \A j \in (i + 1)..n : e[j].start_end_reachable,
                           \A i \in 1..n : e[i].start_end_reachable >>

\* C28 witness: a chain of two snarls, the first stored reversed and with a
\* turn-around only at its stored end, the second impassable: the chain
\* turns around on the left and nowhere else.
C28_Witness ==
    /\ net.built
    /\ net.use_internal_connectivity
    /\ Len(snarls) = 3
    /\ net.child_chains_mixed = << <<2, 3>> >>
    /\ snarls[2].start.backward
    /\ snarls[2].end_self_reachable
    /\ ~snarls[2].start_self_reachable
    /\ snarls[2].start_end_reachable
    /\ ~snarls[3].start_end_reachable
    /\ ~snarls[3].start_self_reachable
    /\ ~snarls[3].end_self_reachable
    /\ net.connectivity[4] = <<TRUE, FALSE, FALSE>>

\* C30: n increments from chain_begin of a chain of n snarls visit the
\* elements first to last and end at chain_end; n increments from
\* chain_rbegin visit them last to first and end at chain_rend; no iterator
\* before the last equals the terminal one.
C30_IterationReachesEnd ==
    last.op = "iterate" =>
        LET n == Len(last.chain)
            terminal == IF last.go_left THEN chain_rend(Mgr, last.chain)
                        ELSE chain_end(Mgr, last.chain)
        IN /\ Len(last.its) = n + 1
           /\ \A k \in 1..n :
                  /\ last.its[k].pos = IF last.go_left THEN n + 1 - k ELSE k
                  /\ last.its[k] # terminal
           /\ last.its[n + 1] = terminal

\* C30 witness: the iteration ran right to left over a chain of two snarls
\* of which one is stored reversed.
C30_Witness ==
    /\ last.op = "iterate"
    /\ last.go_left
    /\ Len(last.chain) = 2
    /\ \E k \in 1..2 : last.its[k].backward
    /\ last.its[3] = chain_rend(Mgr, last.chain)

-----------------------------------------------------------------------------
(* Properties of for_each_handle *)

\* C21: for_each_handle never passes the same handle to its visitor twice,
\* whatever the type of the snarl and whatever its children, and node_size
\* is the number of distinct handles for_each_handle produces.
C21_HandlesOnceAndCounted ==
    /\ last.op \in {"for_each_handle", "node_size"} => NoDuplicates(last.emitted)
    /\ last.op = "node_size" => last.res = Cardinality(Range(last.emitted))

\* The nodes of a chain other than its head: those strictly inside it and
\* its tail.
NodesPastHead(chain) ==
    UNION {{snarls[chain[k]].start.node_id, snarls[chain[k]].end.node_id} :
           k \in 1..Len(chain)}
        \ {get_start(Mgr, chain).node_id}

\* The nodes of the snarl: those of its boundary, node 3 and those of its
\* children.
NodesOfSnarl ==
    {net.start[1], net.end[1], 3}
        \cup UNION {{snarls[k].start.node_id, snarls[k].end.node_id} : k \in 2..Len(snarls)}

\* The nodes the backing graph joins to the far end of a chain from outside
\* the chain.
NodesBeyond(chain) ==
    {s[1] : s \in UNION {e \ {Side(TailNode(chain), TRUE)} :
                         e \in {e \in net.graph : Side(TailNode(chain), TRUE) \in e}}}

\* The edges of the backing graph that do not leave the snarl.
EdgesWithin ==
    {e \in net.graph : /\ LeavingSide(graph_flip(net.start)) \notin e
                       /\ LeavingSide(net.end) \notin e}

\* The nodes joined to the boundary of the snarl by edges within it.
RECURSIVE JoinedTo(_)
JoinedTo(nodes) ==
    LET more == nodes \cup {s[1] : s \in UNION {e \in EdgesWithin :
                                                  \E t \in e : t[1] \in nodes}}
    IN IF more = nodes THEN nodes ELSE JoinedTo(more)

NodesJoined == JoinedTo({net.start[1], net.end[1]})

\* The side by which a chain is entered at its head.
HeadSide(chain) == LeavingSide(graph_flip(VisitHandle(get_start(Mgr, chain))))

\* An edge within the snarl leads from a node joined to the boundary to the
\* head of the chain.
HeadEntered(chain) ==
    \E e \in EdgesWithin :
        /\ HeadSide(chain) \in e
        /\ \E t \in e : t # HeadSide(chain) /\ t[1] \in NodesJoined

\* C22: for a child chain C, for_each_handle emits a handle on C's head node
\* exactly once, none on C's tail node or on a node strictly inside C, and
\* still the ordinary nodes that lie beyond C's far end; every node it emits
\* is a node of the snarl.  C is a chain whose head is entered by an edge
\* within the snarl.
C22_ChainAbsorbed ==
    (last.op = "for_each_handle" /\ last.stop = 0)
        => /\ \A chain \in {c \in ChainChildren : HeadEntered(c)} :
                  /\ Cardinality({i \in 1..Len(last.emitted) :
                         get_id(last.emitted[i]) = get_start(Mgr, chain).node_id}) = 1
                  /\ \A i \in 1..Len(last.emitted) :
                         get_id(last.emitted[i]) \notin NodesPastHead(chain)
                  /\ 3 \in NodesBeyond(chain)
                         => 3 \in {get_id(last.emitted[i]) : i \in 1..Len(last.emitted)}
           /\ \A i \in 1..Len(last.emitted) : get_id(last.emitted[i]) \in NodesOfSnarl

-----------------------------------------------------------------------------
(* shallow_contents and deep_contents over a backing VG *)

\* An Edge of the VG that joins the sides of e: from is the side of lower
\* rank, or the other one when swap is set; a side is the start of its node
\* when it is the left one.
EdgeRecord(e, swap) ==
    LET lo == CHOOSE s \in e : \A t \in e : HandleRank(s) <= HandleRank(t)
        hi == IF Cardinality(e) = 1 THEN lo ELSE CHOOSE s \in e : s # lo
        f == IF swap THEN hi ELSE lo
        t == IF swap THEN lo ELSE hi
    IN [from |-> f[1], from_start |-> ~f[2], to |-> t[1], to_end |-> t[2]]

\* graph.edges_of_node(node): the edges on either side of the node.
edges_of_node(graph, node) == {e \in graph : \E s \in e : s[1] = node}

\* The loop over the edges of the start node: the edges that point into the
\* snarl, each with the node it leads to.
StackFromStart(snarl, graph, swap) ==
    {[edge |-> e,
      node |-> IF EdgeRecord(e, swap).from = snarl.start.node_id
                  /\ EdgeRecord(e, swap).from_start = snarl.start.backward
               THEN EdgeRecord(e, swap).to ELSE EdgeRecord(e, swap).from] :
        e \in {e \in edges_of_node(graph, snarl.start.node_id) :
                  \/ /\ EdgeRecord(e, swap).from = snarl.start.node_id
                     /\ EdgeRecord(e, swap).from_start = snarl.start.backward
                  \/ /\ EdgeRecord(e, swap).to = snarl.start.node_id
                     /\ EdgeRecord(e, swap).to_end # snarl.start.backward}}

\* The loop over the edges of the end node.
StackFromEnd(snarl, graph, swap) ==
    {[edge |-> e,
      node |-> IF EdgeRecord(e, swap).from = snarl.end.node_id
                  /\ EdgeRecord(e, swap).from_start # snarl.end.backward
               THEN EdgeRecord(e, swap).to ELSE EdgeRecord(e, swap).from] :
        e \in {e \in edges_of_node(graph, snarl.end.node_id) :
                  \/ /\ EdgeRecord(e, swap).from = snarl.end.node_id
                     /\ EdgeRecord(e, swap).from_start # snarl.end.backward
                  \/ /\ EdgeRecord(e, swap).to = snarl.end.node_id
                     /\ EdgeRecord(e, swap).to_end = snarl.end.backward}}

\* Node ids pushed on the stack, lowest first.  The sets returned do not
\* depend on the order: a node is stacked once, and what is done at a node
\* depends on that node only.
RECURSIVE Stacked(_)
Stacked(ns) ==
    IF ns = {} THEN <<>>
    ELSE LET n == CHOOSE n \in ns : \A o \in ns : n <= o
         IN <<n>> \o Stacked(ns \ {n})

\* The node on the other side of a snarl that the node points into.
OppositeForward(m, forward_snarl, node) ==
    IF m.snarls[forward_snarl].start.node_id = node
    THEN m.snarls[forward_snarl].end.node_id
    ELSE m.snarls[forward_snarl].start.node_id

OppositeBackward(m, backward_snarl, node) ==
    IF m.snarls[backward_snarl].end.node_id = node
    THEN m.snarls[backward_snarl].start.node_id
    ELSE m.snarls[backward_snarl].end.node_id

FollowedShallow_ignoring_children(edge, node, forward_snarl, backward_snarl) ==
    IF edge.from = node
    THEN [follow |-> TRUE, next_node |-> edge.to]
    ELSE [follow |-> TRUE, next_node |-> edge.from]

\* The test of the edge loop of shallow_contents: the edge leaves the node
\* on a side that does not point into a child.  When it follows the edge
\* the loop stacks next_node.
FollowedShallow(edge, node, forward_snarl, backward_snarl) ==
    IF edge.from = node
    THEN [follow |-> \/ edge.from_start /\ backward_snarl = Null
                     \/ ~edge.from_start /\ forward_snarl = Null,
          next_node |-> edge.to]
    ELSE [follow |-> \/ edge.to_end /\ forward_snarl = Null
                     \/ ~edge.to_end /\ backward_snarl = Null,
          next_node |-> edge.from]

\* The while loop of shallow_contents.
RECURSIVE ShallowLoop(_, _, _, _, _, _)
ShallowLoop(m, graph, swap, stack, already_stacked, to_return) ==
    IF stack = <<>> THEN to_return
    ELSE LET node == stack[Len(stack)]
             forward_snarl == into_which_snarl(m, node, FALSE)
             backward_snarl == into_which_snarl(m, node, TRUE)
             opposite ==
                 (IF forward_snarl # Null
                  THEN {OppositeForward(m, forward_snarl, node)} ELSE {})
                 \cup (IF backward_snarl # Null
                       THEN {OppositeBackward(m, backward_snarl, node)} ELSE {})
             followed ==
                 {e \in edges_of_node(graph, node) :
                     FollowedShallow(EdgeRecord(e, swap), node,
                                     forward_snarl, backward_snarl).follow}
             found ==
                 (opposite
                  \cup {FollowedShallow(EdgeRecord(e, swap), node, forward_snarl,
                                        backward_snarl).next_node : e \in followed})
                 \ already_stacked
         IN ShallowLoop(m, graph, swap,
                        SubSeq(stack, 1, Len(stack) - 1) \o Stacked(found),
                        already_stacked \cup found,
                        [nodes |-> to_return.nodes \cup {node},
                         edges |-> to_return.edges \cup followed])

\* The while loop of deep_contents.
RECURSIVE DeepLoop(_, _, _, _, _)
DeepLoop(graph, swap, stack, already_stacked, to_return) ==
    IF stack = <<>> THEN to_return
    ELSE LET node == stack[Len(stack)]
             found ==
                 {IF EdgeRecord(e, swap).from = node THEN EdgeRecord(e, swap).to
                  ELSE EdgeRecord(e, swap).from : e \in edges_of_node(graph, node)}
                 \ already_stacked
         IN DeepLoop(graph, swap,
                     SubSeq(stack, 1, Len(stack) - 1) \o Stacked(found),
                     already_stacked \cup found,
                     [nodes |-> to_return.nodes \cup {node},
                      edges |-> to_return.edges \cup edges_of_node(graph, node)])

\* What both functions do before their while loop: the boundary nodes are
\* marked as stacked and returned if asked for, and the nodes one edge
\* inside the snarl are stacked.
ContentsSeed(snarl, graph, swap, include_boundary_nodes) ==
    LET boundary == {snarl.start.node_id, snarl.end.node_id}
        hits == StackFromStart(snarl, graph, swap) \cup StackFromEnd(snarl, graph, swap)
        found == {h.node : h \in hits} \ boundary
    IN [stack |-> Stacked(found), already_stacked |-> boundary \cup found,
        to_return |-> [nodes |-> IF include_boundary_nodes THEN boundary ELSE {},
                       edges |-> {h.edge : h \in hits}]]

shallow_contents(m, snarl, graph, swap, include_boundary_nodes) ==
    LET seed == ContentsSeed(m.snarls[snarl], graph, swap, include_boundary_nodes)
    IN ShallowLoop(m, graph, swap, seed.stack, seed.already_stacked, seed.to_return)

deep_contents(m, snarl, graph, swap, include_boundary_nodes) ==
    LET seed == ContentsSeed(m.snarls[snarl], graph, swap, include_boundary_nodes)
    IN DeepLoop(graph, swap, seed.stack, seed.already_stacked, seed.to_return)

\* The side of a boundary that faces into the snarl.
InwardStart(snarl) == Side(snarl.start.node_id, ~snarl.start.backward)

InwardEnd(snarl) == Side(snarl.end.node_id, snarl.end.backward)

\* What a child can hold, X being the node inside it: one edge straight
\* through, a path through X, or the edge and X as a tip on the end.
Interiors(kid, X) ==
    {{{InwardStart(kid), InwardEnd(kid)}},
     {{InwardStart(kid), Side(X, FALSE)}, {Side(X, TRUE), InwardEnd(kid)}},
     {{InwardStart(kid), InwardEnd(kid)}, {InwardEnd(kid), Side(X, FALSE)}}}

\* The edges inside the children from the k-th on, the k-th child holding
\* node 6 + k if it holds a node.
RECURSIVE InteriorsOf(_, _)
InteriorsOf(kids, k) ==
    IF k > Len(kids) THEN {{}}
    ELSE {here \cup rest : here \in Interiors(kids[k], 6 + k),
                           rest \in InteriorsOf(kids, k + 1)}

\* The state after the manager was built over a snarl and its children, and
\* the VG the snarls were found in.
InitContents ==
    \E P \in NetParents, swap \in BOOLEAN :
      \E lay \in LayoutsUnder(P, [start_self_reachable |-> FALSE,
                                  end_self_reachable |-> FALSE,
                                  start_end_reachable |-> TRUE]) :
          LET store == <<P>> \o lay.kids
              m == Construct(store)
          IN \E outer \in EdgeSets(EdgesAmong(lay.sides \cup {Side(3, FALSE), Side(3, TRUE)}),
                                   MaxEdges),
                inner \in InteriorsOf(lay.kids, 1) :
                /\ snarls = store
                /\ index_of = m.index_of
                /\ snarl_into = m.snarl_into
                /\ parent = m.parent
                /\ children = m.children
                /\ roots = m.roots
                /\ net = NoNetGraph
                /\ last = [op |-> "vg", graph |-> outer \cup inner \cup {OutsideEdge},
                           swap |-> swap]

\* shallow_contents(snarl, graph, include_boundary_nodes) of a stored snarl.
ShallowContents(snarl, include_boundary_nodes) ==
    /\ last.op = "vg"
    /\ last' = [op |-> "shallow_contents", graph |-> last.graph, swap |-> last.swap,
                snarl |-> snarl, include_boundary_nodes |-> include_boundary_nodes,
                res |-> shallow_contents(Mgr, snarl, last.graph, last.swap,
                                         include_boundary_nodes)]
    /\ UNCHANGED <<snarls, index_of, snarl_into, parent, children, roots, net>>

\* deep_contents(snarl, graph, include_boundary_nodes) of a stored snarl.
DeepContents(snarl, include_boundary_nodes) ==
    /\ last.op = "vg"
    /\ last' = [op |-> "deep_contents", graph |-> last.graph, swap |-> last.swap,
                snarl |-> snarl, include_boundary_nodes |-> include_boundary_nodes,
                res |-> deep_contents(Mgr, snarl, last.graph, last.swap,
                                      include_boundary_nodes)]
    /\ UNCHANGED <<snarls, index_of, snarl_into, parent, children, roots, net>>

NextContents ==
    \/ \E snarl \in 1..Len(snarls), include_boundary_nodes \in BOOLEAN :
           ShallowContents(snarl, include_boundary_nodes)
    \/ \E snarl \in 1..Len(snarls), include_boundary_nodes \in BOOLEAN :
           DeepContents(snarl, include_boundary_nodes)

SpecContents == InitContents /\ [][NextContents]_vars

\* The nodes that lie in children of the snarl, off the children's
\* boundaries.
NodesInsideChildren == {n \in 7..(6 + Len(snarls)) : edges_of_node(last.graph, n) # {}}

\* The edges on the inward sides of the boundary nodes of a snarl.
BorderingEdges(snarl) ==
    {e \in last.graph : InwardStart(snarl) \in e \/ InwardEnd(snarl) \in e}

\* The nodes joined to the nodes ns by edges, not going through a node of
\* stop.
RECURSIVE Within(_, _)
Within(ns, stop) ==
    LET more == {s[1] : s \in UNION {e \in last.graph : \E s \in e : s[1] \in ns}} \ stop
    IN IF more \subseteq ns THEN ns ELSE Within(ns \cup more, stop)

\* The nodes that lie in a snarl: those its bordering edges lead to, and
\* what is joined to them short of the boundary nodes.
NodesIn(snarl) ==
    LET boundary == {snarl.start.node_id, snarl.end.node_id}
    IN Within({s[1] : s \in UNION BorderingEdges(snarl)} \ boundary, boundary)

-----------------------------------------------------------------------------
(* visits_right *)

\* to_right_side(visit): the side by which the visit is left; for a snarl
\* visit, the outward side of the boundary it is left by.
to_right_side(visit) ==
    IF visit.node_id # 0 THEN Side(visit.node_id, ~visit.backward)
    ELSE IF visit.backward
         THEN Side(visit.snarl.start.node_id, visit.snarl.start.backward)
         ELSE Side(visit.snarl.end.node_id, ~visit.snarl.end.backward)

\* graph.sides_of(side): the sides joined to the side by an edge, in the
\* order of the set that holds them.
sides_of(graph, side) ==
    InOrder(UNION {OtherSides(e, side) : e \in {e \in graph : side \in e}})

\* A visit to a node.
VisitToNode(node, backward) ==
    [EmptyVisit EXCEPT !.node_id = node, !.backward = backward]

\* What stands for the visit when the code throws instead of making one.
NoVisit == [EmptyVisit EXCEPT !.node_id = Throw]

\* The test both branches of visits_right make: reading on from the side
\* enters a snarl that is not in_snarl, and the node is not a boundary by
\* which in_snarl is entered from the other side.
ReadsIntoChild(m, node, reverse_read, in_snarl) ==
    /\ into_which_snarl(m, node, reverse_read) # Null
    /\ into_which_snarl(m, node, reverse_read) # in_snarl
    /\ into_which_snarl(m, node, ~reverse_read) # in_snarl

VisitFrom_always_forward(m, attached, in_snarl) ==
    LET child == into_which_snarl(m, attached[1], attached[2])
    IN IF ReadsIntoChild(m, attached[1], attached[2], in_snarl)
       THEN SnarlVisit(m.snarls[child])
       ELSE VisitToNode(attached[1], attached[2])

\* The body of the loop over the attached sides: the visit pushed for one
\* of them.
VisitFrom(m, attached, in_snarl) ==
    LET child == into_which_snarl(m, attached[1], attached[2])
    IN IF ReadsIntoChild(m, attached[1], attached[2], in_snarl)
       THEN IF attached[1] = m.snarls[child].start.node_id
            THEN SnarlVisit(m.snarls[child])
            ELSE IF attached[1] = m.snarls[child].end.node_id
                 THEN [SnarlVisit(m.snarls[child]) EXCEPT !.backward = TRUE]
                 ELSE NoVisit
       ELSE VisitToNode(attached[1], attached[2])

\* visits_right(visit, graph, in_snarl): status "ok" with the visits
\* returned, "assert" or "throw"; expanded says whether the edges of the
\* graph were read, and attached is what they gave.
visits_right(m, visit, graph, in_snarl) ==
    LET right_side == to_right_side(visit)
        child == into_which_snarl(m, right_side[1], ~right_side[2])
        attached == sides_of(graph, right_side)
        found == [j \in 1..Len(attached) |-> VisitFrom(m, attached[j], in_snarl)]
    IN IF visit.node_id = 0 /\ ReadsIntoChild(m, right_side[1], ~right_side[2], in_snarl)
       THEN IF right_side[1] = m.snarls[child].end.node_id
            THEN [status |-> "ok", expanded |-> FALSE, attached |-> <<>>,
                  visits |-> <<[SnarlVisit(m.snarls[child]) EXCEPT !.backward = TRUE]>>]
            ELSE IF right_side[1] = m.snarls[child].start.node_id
                 THEN [status |-> "ok", expanded |-> FALSE, attached |-> <<>>,
                       visits |-> <<SnarlVisit(m.snarls[child])>>]
                 ELSE [status |-> "assert", expanded |-> FALSE, attached |-> <<>>,
                       visits |-> <<>>]
       ELSE IF \E j \in 1..Len(attached) : found[j] = NoVisit
            THEN [status |-> "throw", expanded |-> TRUE, attached |-> attached,
                  visits |-> <<>>]
            ELSE [status |-> "ok", expanded |-> TRUE, attached |-> attached,
                  visits |-> found]

\* The visits tried: to the nodes of the graph and to the children, either
\* way round.
VisitsTried ==
    {VisitToNode(n, b) : n \in {s[1] : s \in UNION last.graph}, b \in BOOLEAN}
    \cup {VisitOf(c, b) : c \in 2..Len(snarls), b \in BOOLEAN}

\* visits_right(visit, graph, in_snarl), in_snarl a stored snarl.
VisitsRight(visit, in_snarl) ==
    /\ last.op = "vg"
    /\ last' = [op |-> "visits_right", graph |-> last.graph, visit |-> visit,
                in_snarl |-> in_snarl,
                res |-> visits_right(Mgr, visit, last.graph, in_snarl)]
    /\ UNCHANGED <<snarls, index_of, snarl_into, parent, children, roots, net>>

NextVisits == \E visit \in VisitsTried : VisitsRight(visit, 1)

\* The states of InitContents, the edges read one way round: visits_right
\* reads sides, not the from and to of an edge.
InitVisits == InitContents /\ ~last.swap

SpecVisits == InitVisits /\ [][NextVisits]_vars

\* The node the j-th visit returned was reached at.
ReachedAt(j) ==
    IF last.res.expanded THEN last.res.attached[j][1] ELSE to_right_side(last.visit)[1]

\* The visit is a visit to a child of in_snarl, entered at the node: at its
\* start node when forward, at its end node when backward.
EntersChildAt(w, node) ==
    LET C == manage(Mgr, w.snarl)
    IN /\ C # Throw
       /\ C # last.in_snarl
       /\ parent_of(Mgr, C) = last.in_snarl
       /\ node = (IF w.backward THEN snarls[C].end.node_id ELSE snarls[C].start.node_id)

\* The visit asked about is a visit to a child, and on leaving it one is
\* at once in another child of in_snarl.
LeavesIntoAnotherChild ==
    /\ last.visit.node_id = 0
    /\ \E C \in 2..Len(snarls) :
          /\ C # manage(Mgr, last.visit.snarl)
          /\ parent_of(Mgr, C) = last.in_snarl
          /\ <<to_right_side(last.visit)[1], ~to_right_side(last.visit)[2]>>
                \in {IntoStartKey(snarls[C]), IntoEndKey(snarls[C])}

\* C29: visits_right returns normally; every snarl visit it returns is to a
\* child of in_snarl, not in_snarl itself, entered at the node reached (its
\* start node when the visit is forward, its end node when backward); every
\* other attached side gives the node visit (attached.node, attached.is_end);
\* and on leaving a child straight into another child it returns exactly one
\* snarl visit and does not read the edges of the graph.
C29_VisitsRight ==
    last.op = "visits_right" =>
        /\ last.res.status = "ok"
        /\ last.res.expanded => Len(last.res.visits) = Len(last.res.attached)
        /\ \A j \in 1..Len(last.res.visits) :
               IF last.res.visits[j].has_snarl
               THEN EntersChildAt(last.res.visits[j], ReachedAt(j))
               ELSE /\ last.res.expanded
                    /\ last.res.visits[j] = VisitToNode(last.res.attached[j][1],
                                                        last.res.attached[j][2])
        /\ LeavesIntoAnotherChild =>
               /\ ~last.res.expanded
               /\ Len(last.res.visits) = 1
               /\ last.res.visits[1].has_snarl

\* C29 witness: a backward visit to the second child of a chain has given
\* the one visit to the first child, backward too, without reading edges.
C29_Witness ==
    /\ last.op = "visits_right"
    /\ LeavesIntoAnotherChild
    /\ last.visit.backward
    /\ ~last.res.expanded
    /\ Len(last.res.visits) = 1
    /\ last.res.visits[1].has_snarl
    /\ last.res.visits[1].backward

-----------------------------------------------------------------------------
(* for_each_top_level_snarl_parallel: the loop over roots, shared out among
   the threads of a team *)

\* The threads of the team that runs the parallel loop.
MaxThreads == 2

Threads == 1..MaxThreads

\* The call enters the parallel region: no iteration is handed out yet, no
\* thread is in the visitor.
ForEachTopLevelSnarlParallel ==
    /\ last.op = "construct"
    /\ last' = [op |-> "parallel", before |-> Mgr, taken |-> {},
                at |-> [t \in Threads |-> 0], visits |-> <<>>,
                completed |-> {}, returned |-> FALSE]
    /\ UNCHANGED <<snarls, index_of, snarl_into, parent, children, roots, net>>

\* Thread t takes iteration i, which no thread has taken, and calls
\* lambda(roots[i]).
RunIteration(t, i) ==
    /\ last.op = "parallel"
    /\ ~last.returned
    /\ last.at[t] = 0
    /\ i \in (1..Len(roots)) \ last.taken
    /\ last' = [last EXCEPT !.taken = @ \cup {i}, !.at[t] = i,
                            !.visits = Append(@, roots[i])]
    /\ UNCHANGED <<snarls, index_of, snarl_into, parent, children, roots, net>>

\* The visitor returns to thread t.
FinishIteration(t) ==
    /\ last.op = "parallel"
    /\ last.at[t] # 0
    /\ last' = [last EXCEPT !.completed = @ \cup {last.at[t]}, !.at[t] = 0]
    /\ UNCHANGED <<snarls, index_of, snarl_into, parent, children, roots, net>>

ParallelReturn_nowait ==
    /\ last.op = "parallel"
    /\ ~last.returned
    /\ last.taken = 1..Len(roots)
    /\ last' = [last EXCEPT !.returned = TRUE]
    /\ UNCHANGED <<snarls, index_of, snarl_into, parent, children, roots, net>>

\* The end of the parallel region: every iteration has been handed out and
\* every thread of the team has arrived at the barrier that closes the loop;
\* the function returns.
ParallelReturn ==
    /\ last.op = "parallel"
    /\ ~last.returned
    /\ last.taken = 1..Len(roots)
    /\ \A t \in Threads : last.at[t] = 0
    /\ last' = [last EXCEPT !.returned = TRUE]
    /\ UNCHANGED <<snarls, index_of, snarl_into, parent, children, roots, net>>

NextParallel ==
    \/ ForEachTopLevelSnarlParallel
    \/ \E t \in Threads : \E i \in 1..Len(roots) : RunIteration(t, i)
    \/ \E t \in Threads : FinishIteration(t)
    \/ ParallelReturn

SpecParallel == Init /\ [][NextParallel]_vars

\* How many times the visitor was called with root snarl r.
VisitsOf(r) == Cardinality({j \in 1..Len(last.visits) : last.visits[j] = r})

\* C24: under every interleaving of the threads,
\* for_each_top_level_snarl_parallel calls the visitor with root snarls only,
\* never twice with the same one, and by the time it returns exactly once
\* with each; it returns only when every one of these calls has completed;
\* and it leaves the store and the indexes as they were.
C24_ParallelVisitsRoots ==
    last.op = "parallel" =>
        /\ \A j \in 1..Len(last.visits) : last.visits[j] \in Range(roots)
        /\ \A r \in Range(roots) : VisitsOf(r) <= 1
        /\ last.returned =>
               /\ \A r \in Range(roots) : VisitsOf(r) = 1
               /\ last.completed = 1..Len(roots)
               /\ \A t \in Threads : last.at[t] = 0
        /\ Mgr = last.before

\* C24 witness: the call has returned after two threads ran the visitor on
\* two roots, the second root first.
C24_Witness ==
    /\ last.op = "parallel"
    /\ last.returned
    /\ Len(roots) = 2
    /\ last.visits = <<roots[2], roots[1]>>

-----------------------------------------------------------------------------
(* Termination of chains_of *)

\* C26: chains_of(P) terminates for every P in every index state that
\* build_indexes produces, children that form a closed cycle of shared
\* boundaries included: neither walk runs for ever.
C26_ChainsOfTerminates ==
    last.op = "chains_of" => last.res.status # "diverge"
====
